---------------------------- MODULE Spec2Model ----------------------------
(***************************************************************************)
(* Ticket lifecycle and notification engine of the civic issue reporting   *)
(* server (src/src/components/RaiseTicketFlow.tsx, lines 796-1784).        *)
(*                                                                         *)
(* The key-value store is modelled by one variable per key prefix.  Every  *)
(* `await kv.*` of a handler is one atomic step of the request that runs   *)
(* the handler, so the steps of overlapping requests interleave exactly at *)
(* the awaits.  The steps between two store calls (token check, body       *)
(* parsing, building a record) are local and belong to the step of the     *)
(* store call that precedes them.                                          *)
(***************************************************************************)
EXTENDS Integers, Sequences, FiniteSets, TLC

\* ------------------------------------------------------------------ bounds
MaxClock == 1          \* Date.now() ranges over 0..MaxClock
MaxReq == 2            \* requests served one after another in one behaviour
MaxRnd == 1            \* Math.random() suffixes range over 0..MaxRnd

\* ------------------------------------------------------- program constants
NotifCap == 50         \* createNotification keeps the first 50 entries

\* --------------------------------------------------------------- encodings
NULL == "null"                      \* JS null / undefined where a string may stand
None == << >>                       \* JS null / undefined where an object or number may stand
Some(x) == << x >>
Val(o) == o[1]
Falsy(s) == s \in {NULL, ""}        \* !s for a string-or-null s

Procs == {1, 2}                     \* request slots: requests that may overlap
Users == {"a1", "a2", "c1", "c2"}   \* ids the identity provider knows
Callers == Users \cup {NULL}        \* NULL: missing or invalid token
KeyOrder == << "a1", "a2", "a3", "c1", "c2" >>   \* iteration order of getByPrefix
TicketIds == 0 .. MaxClock          \* `TKT${Date.now()}`
Rnd == 0 .. MaxRnd

VARIABLES
    now,                \* Date.now()
    kv_ticket,          \* ticket_<id>          -> ticket
    kv_user_tickets,    \* user_tickets_<uid>   -> sequence of ticket ids
    kv_user_profile,    \* user_profile_<uid>   -> profile
    kv_upvote,          \* upvote_<id>_<uid>    -> upvote record
    kv_notifications,   \* notifications_<uid>  -> feed
    pc,                 \* the await each request is at
    req,                \* the request each slot is serving
    ticket,             \* handler local `ticket`
    userTickets,        \* handler local `userTickets`
    notifications,      \* createNotification local `notifications`
    pending,            \* createNotification calls the handler has still to make
    resp,               \* the response of the request
    nreq,               \* requests started so far
    before,             \* history: the store when the running request started
    okUpvotes,          \* history: the voters of the successful Upvote calls per ticket since its creation
    query,              \* c.req.query of the last read request
    result,             \* the response body of the last read request
    kv_profile_otp,     \* profile_update_otp_<uid> -> OTP record
    upvoteRecord,       \* upvote: the record of line 1130, as built when kv.set is called
    myTickets,          \* my tickets: const tickets of line 985
    rpProfile,          \* reset-password: const userProfile (line 1289), null or the profile
    updatedProfile,     \* profile: const updatedProfile, and the object a kv.set is called with
    user_metadata,      \* the identity provider's user_metadata of each user
    kv_otp,             \* forgot_password_otp_<aadhaar> -> OTP record
    password,           \* the identity provider's password of each user
    otpData,            \* handler local `otpData`
    appState,           \* App: useState appState
    appUser,            \* App: useState user
    running,            \* App: the calls of its async handlers that have not returned
    step,               \* RaiseTicketFlow: useState step
    ticketData,         \* RaiseTicketFlow: useState ticketData
    locationLoading,    \* RaiseTicketFlow: useState locationLoading
    loading,            \* RaiseTicketFlow: useState loading
    submittedTicket,    \* RaiseTicketFlow: useState submittedTicket
    awaiting,           \* RaiseTicketFlow: the calls of its async handlers at an await
    submitCalls         \* RaiseTicketFlow: the ticketsAPI.submit calls made, with the step of each

kvVars == << kv_ticket, kv_user_tickets, kv_user_profile, kv_upvote, kv_notifications,
            kv_profile_otp >>
moreLocals == << upvoteRecord, myTickets, updatedProfile >>
localVars == << ticket, userTickets, notifications, pending, moreLocals >>
histVars == << before, okUpvotes >>
progVars == << now, kvVars, pc, req, localVars, resp, nreq >>
readVars == << query, result >>
otpVars == << kv_otp, password, otpData, rpProfile, user_metadata >>
appVars == << appState, appUser, running >>
wizVars == << step, ticketData, locationLoading, loading, submittedTicket, awaiting,
              submitCalls >>
\* what the ticket and notification requests leave alone
idleVars == << readVars, otpVars, appVars, wizVars >>
vars == << progVars, histVars, idleVars >>

store == [ticket |-> kv_ticket, user_tickets |-> kv_user_tickets,
          upvote |-> kv_upvote, notifications |-> kv_notifications]

\* kv.get(key): the value, or null
Get(kv, k) == IF k \in DOMAIN kv THEN Some(kv[k]) ELSE None
\* kv.set(key, value)
Set(kv, k, v) == [x \in DOMAIN kv \cup {k} |-> IF x = k THEN v ELSE kv[x]]
\* kv.del(key)
Del(kv, k) == [x \in DOMAIN kv \ {k} |-> kv[x]]
\* obj.f, undefined when obj has no property f
Field(obj, f) == IF f \in DOMAIN obj THEN obj[f] ELSE NULL
\* { ...a, ...b }
Spread(a, b) == [f \in DOMAIN a \cup DOMAIN b |-> IF f \in DOMAIN b THEN b[f] ELSE a[f]]

\* ------------------------------------------------------- request inputs
Categories == {"garbage-management", "pothole", "streetlight", "water-supply",
               "drainage", "traffic", "noise-pollution", "other"}
LocOK == [lat |-> Some(28), lng |-> Some(77), ward |-> "Ward 1"]
LocNoLat == [lat |-> None, lng |-> Some(77), ward |-> NULL]
\* the bodies of the submit requests the model sends: <<category, location>>
SubmitBodies == { << "pothole", Some(LocOK) >>, << "bogus", Some(LocNoLat) >>,
                  << NULL, Some(LocOK) >>, << "pothole", None >> }
\* the bodies of the status requests: <<status, resolution, proofImageUrl>>
StatusBodies == { << "in-progress", NULL, NULL >>, << "completed", "fixed", "url" >>,
                  << "completed", NULL, "url" >>, << "assigned", "fixed", "url" >>,
                  << "completed", "fixed", NULL >> }

\* The requests sent when requests run one at a time: <<caller, ...>>.  A request
\* that is refused before its body is read is sent with one body only, and the
\* bodies that differ from the plain one are sent by c1.
SeqSubmits == ({NULL, "c1", "c2"} \X { << "pothole", Some(LocOK) >> })
              \cup ({"c1"} \X SubmitBodies)
SeqStatuses == ({NULL, "c1", "c2"} \X {0} \X { << "in-progress", NULL, NULL >> })
               \cup ({"a1"} \X TicketIds \X StatusBodies)
SeqUpvotes == ({NULL} \X {0}) \cup ({"a1", "c1", "c2"} \X TicketIds)

\* The requests sent when requests overlap.
ConcSubmits == {"c1", "c2"} \X { << "pothole", Some(LocOK) >> }
ConcStatuses == {"a1"} \X TicketIds \X { << "in-progress", NULL, NULL >>,
                                          << "completed", "fixed", "url" >> }
ConcUpvotes == {"a1", "c1", "c2"} \X TicketIds

NoReq == [op |-> "none", user |-> NULL, body |-> None, ticketId |-> 0, category |-> NULL,
          location |-> None, status |-> NULL, resolution |-> NULL,
          proofImageUrl |-> NULL, notificationId |-> None,
          aadhaar |-> NULL, otp |-> NULL, newPassword |-> NULL]
NoResp == [code |-> 0, error |-> ""]

\* String.prototype.replace('-', ' ') on the strings the model uses
ReplaceDash(s) ==
    CASE s = "garbage-management" -> "garbage management"
      [] s = "water-supply" -> "water supply"
      [] s = "noise-pollution" -> "noise pollution"
      [] s = "in-progress" -> "in progress"
      [] OTHER -> s

\* ------------------------------------------------------------ responses
Respond_Hangs(p, code, err) ==
    /\ pc' = [pc EXCEPT ![p] = "hung"]
    /\ resp' = [resp EXCEPT ![p] = [code |-> code, error |-> err]]
Respond(p, code, err) ==
    /\ pc' = [pc EXCEPT ![p] = "done"]
    /\ resp' = [resp EXCEPT ![p] = [code |-> code, error |-> err]]

Goto(p, label) ==
    /\ pc' = [pc EXCEPT ![p] = label]
    /\ UNCHANGED resp

\* The handler goes on to its createNotification calls, or returns c.json(...).
Notify(p, calls) ==
    /\ pending' = [pending EXCEPT ![p] = calls]
    /\ IF calls = << >> THEN Respond(p, 200, "") ELSE Goto(p, "n_get")

Start(p, r) ==
    /\ pc[p] = "idle"
    /\ nreq < MaxReq
    /\ nreq' = nreq + 1
    /\ req' = [req EXCEPT ![p] = r]


\* ------------------------------------------------------- createNotification
\* lines 1749-1757: the notification object
Notification(t, r, call) ==
    [id |-> << t, r >>, type |-> call.type, title |-> call.title,
     message |-> call.message, ticketId |-> call.ticketId, read |-> FALSE,
     createdAt |-> t]

\* lines 1759-1764: unshift, then splice(50)
Unshift_DropNewest(feed, n) ==
    LET all == << n >> \o feed
    IN IF Len(all) > NotifCap THEN SubSeq(all, 2, NotifCap + 1) ELSE all
Unshift(feed, n) ==
    LET all == << n >> \o feed
    IN IF Len(all) > NotifCap THEN SubSeq(all, 1, NotifCap) ELSE all

\* line 1750: Math.random().toString(36).substr(2, 9).  A suffix is only ever
\* compared for equality, and an id holds the time as well: the draws are taken
\* up to renaming.  A draw is either new, the least suffix no entry of this time
\* has, or it repeats a suffix that an entry of this time has; the repeated
\* suffixes the model follows are those of Rnd.
UsedAt(feed, t) == {feed[i].id[2] : i \in {j \in 1 .. Len(feed) : feed[j].id[1] = t}}
Fresh(used) == CHOOSE r \in 0 .. Cardinality(used) : r \notin used /\ \A x \in 0 .. r - 1 : x \in used
Suffixes(feed, t) == {Fresh(UsedAt(feed, t))} \cup (UsedAt(feed, t) \cap Rnd)

\* line 1748 and the synchronous code up to the kv.set of line 1766.  The draw
\* may also be new with respect to the entries the other requests have drawn and
\* not yet stored.
NGet(p) ==
    /\ pc[p] = "n_get"
    /\ LET call == Head(pending[p])
           got == Get(kv_notifications, call.userId)
           feed == IF got = None THEN << >> ELSE Val(got)
           drawn == UsedAt(feed, now)
                    \cup UNION {UsedAt(notifications[q], now) : q \in Procs \ {p}}
       IN \E r \in Suffixes(feed, now) \cup {Fresh(drawn)} :
             notifications' = [notifications EXCEPT ![p] =
                                  Unshift(feed, Notification(now, r, call))]
    /\ Goto(p, "n_set")
    /\ UNCHANGED << now, kvVars, req, ticket, userTickets, pending, nreq, moreLocals >>

\* the suffix of the entry built at line 1749 is one no other entry of its time has
NewSuffix(p) ==
    LET entry == Head(notifications[p])
    IN entry.id[2] \notin UsedAt(Tail(notifications[p]), entry.id[1])

\* line 1766, and the return to the handler, which makes its next call or responds
NSet(p) ==
    /\ pc[p] = "n_set"
    /\ kv_notifications' = Set(kv_notifications, Head(pending[p]).userId, notifications[p])
    /\ Notify(p, Tail(pending[p]))
    /\ UNCHANGED << now, kv_ticket, kv_user_tickets, kv_user_profile, kv_upvote,
                    req, ticket, userTickets, notifications, nreq, moreLocals, kv_profile_otp >>

\* ----------------------------------------------------------- submit ticket
\* line 927: the response to a request with missing fields
SubmitInvalidCode == 400

\* line 926
SubmitValid_LocationOnly(category, location) == location # None
SubmitValid(category, location) == ~(Falsy(category) \/ location = None)

\* lines 930-944
NewTicket_Assigned(t, user, category, location) ==
    [id |-> t, userId |-> user, category |-> category, description |-> "",
     location |-> location, imageUrl |-> NULL, status |-> "assigned",
     createdAt |-> t, updatedAt |-> t, assignedTo |-> user, resolution |-> None,
     upvotes |-> 0]
NewTicket(t, user, category, location) ==
    [id |-> t, userId |-> user, category |-> category, description |-> "",
     location |-> location, imageUrl |-> NULL, status |-> "submitted",
     createdAt |-> t, updatedAt |-> t, assignedTo |-> NULL, resolution |-> None,
     upvotes |-> 0]

\* lines 916-944: token check, body, required fields, the ticket object
SubmitTicket(p, user, body) ==
    LET category == body[1]
        location == body[2]
    IN
    /\ Start(p, [NoReq EXCEPT !.op = "submit", !.user = user,
                              !.category = category, !.location = location])
    /\ IF user = NULL
         THEN Respond(p, 401, "Unauthorized") /\ UNCHANGED ticket
       ELSE IF ~SubmitValid(category, location)
         THEN Respond(p, SubmitInvalidCode, "Category and location are required") /\ UNCHANGED ticket
       ELSE /\ ticket' = [ticket EXCEPT ![p] =
                              Some(NewTicket(now, user, category, Val(location)))]
            /\ Goto(p, "cr_setTicket")
    /\ UNCHANGED << now, kvVars, userTickets, notifications, pending, moreLocals >>

\* line 946
CrSetTicket(p) ==
    /\ pc[p] = "cr_setTicket"
    /\ kv_ticket' = Set(kv_ticket, Val(ticket[p]).id, Val(ticket[p]))
    /\ Goto(p, "cr_getUserTickets")
    /\ UNCHANGED << now, kv_user_tickets, kv_user_profile, kv_upvote, kv_notifications,
                    req, localVars, nreq, kv_profile_otp >>

\* lines 949-950
PushTicketId(list, id) == Append(list, id)

CrGetUserTickets(p) ==
    /\ pc[p] = "cr_getUserTickets"
    /\ LET got == Get(kv_user_tickets, req[p].user)
           list == IF got = None THEN << >> ELSE Val(got)
       IN userTickets' = [userTickets EXCEPT ![p] = PushTicketId(list, Val(ticket[p]).id)]
    /\ Goto(p, "cr_setUserTickets")
    /\ UNCHANGED << now, kvVars, req, ticket, notifications, pending, nreq, moreLocals >>

\* line 951
CrSetUserTickets(p) ==
    /\ pc[p] = "cr_setUserTickets"
    /\ kv_user_tickets' = Set(kv_user_tickets, req[p].user, userTickets[p])
    /\ Goto(p, "cr_getProfiles")
    /\ UNCHANGED << now, kv_ticket, kv_user_profile, kv_upvote, kv_notifications,
                    req, localVars, nreq, kv_profile_otp >>

\* kv.getByPrefix('user_profile_')
AllProfiles(profiles) ==
    LET keys == SelectSeq(KeyOrder, LAMBDA u : u \in DOMAIN profiles)
    IN [i \in 1 .. Len(keys) |-> profiles[keys[i]]]

\* line 955
Authorities(profiles) ==
    SelectSeq(AllProfiles(profiles), LAMBDA pr : Field(pr, "role") = "authority")

\* lines 958-964: the createNotification call made for one authority
NewTicketCall(authority, t) ==
    [userId |-> authority.id, type |-> "new_ticket", title |-> "New Issue Reported",
     message |-> << "A new issue has been reported in", ReplaceDash(t.category),
                    IF Falsy(t.location.ward) THEN "your area" ELSE t.location.ward >>,
     ticketId |-> t.id]

\* lines 954-967
CrGetProfiles(p) ==
    /\ pc[p] = "cr_getProfiles"
    /\ LET authorities == Authorities(kv_user_profile)
       IN Notify(p, [i \in 1 .. Len(authorities) |->
                        NewTicketCall(authorities[i], Val(ticket[p]))])
    /\ UNCHANGED << now, kvVars, req, ticket, userTickets, notifications, nreq, moreLocals >>

\* ----------------------------------------------------------- update status
\* line 1046
IsAuthority_AnyProfile(profile) == profile # None
IsAuthority(profile) == profile # None /\ Field(Val(profile), "role") = "authority"

\* lines 1058-1069
WithStatus_NoAssignee(t, status, resolution, proofImageUrl, user, time) ==
    LET u == [t EXCEPT !.status = status, !.updatedAt = time]
    IN IF Falsy(resolution) THEN u
       ELSE [u EXCEPT !.resolution =
                Some([notes |-> resolution,
                      proofImageUrl |-> IF Falsy(proofImageUrl) THEN NULL ELSE proofImageUrl,
                      resolvedBy |-> user, resolvedAt |-> time])]
WithStatus_KeepStatus(t, status, resolution, proofImageUrl, user, time) ==
    LET u == [t EXCEPT !.updatedAt = time, !.assignedTo = user]
    IN IF Falsy(resolution) THEN u
       ELSE [u EXCEPT !.resolution =
                Some([notes |-> resolution,
                      proofImageUrl |-> IF Falsy(proofImageUrl) THEN NULL ELSE proofImageUrl,
                      resolvedBy |-> user, resolvedAt |-> time])]
WithStatus_ResolvesCompleted(t, status, resolution, proofImageUrl, user, time) ==
    LET u == [t EXCEPT !.status = status, !.updatedAt = time, !.assignedTo = user]
    IN IF Falsy(resolution) \/ status # "completed" THEN u
       ELSE [u EXCEPT !.resolution =
                Some([notes |-> resolution,
                      proofImageUrl |-> IF Falsy(proofImageUrl) THEN NULL ELSE proofImageUrl,
                      resolvedBy |-> user, resolvedAt |-> time])]
WithStatus(t, status, resolution, proofImageUrl, user, time) ==
    LET u == [t EXCEPT !.status = status, !.updatedAt = time, !.assignedTo = user]
    IN IF Falsy(resolution) THEN u
       ELSE [u EXCEPT !.resolution =
                Some([notes |-> resolution,
                      proofImageUrl |-> IF Falsy(proofImageUrl) THEN NULL ELSE proofImageUrl,
                      resolvedBy |-> user, resolvedAt |-> time])]

\* line 1076
StatusMessage(status) == IF status = "completed" THEN "resolved" ELSE ReplaceDash(status)

\* lines 1077-1083
UpdateCall(t, status) ==
    [userId |-> t.userId, type |-> "ticket_update", title |-> "Ticket Status Updated",
     message |-> << "Your ticket has been", t.id, StatusMessage(status) >>,
     ticketId |-> t.id]

\* lines 1087-1093
ResolutionCall(t) ==
    [userId |-> t.userId, type |-> "resolution", title |-> "Issue Resolved",
     message |-> << "Your ticket has been completed with proof of resolution", t.id >>,
     ticketId |-> t.id]

\* line 1086
SendsResolution(status, proofImageUrl) == status = "completed" /\ ~Falsy(proofImageUrl)

\* lines 1075-1095: the createNotification calls made for the ticket owner
OwnerCalls_NoGuard(ownerProfile, t, status, proofImageUrl) ==
    << UpdateCall(t, status) >>
    \o (IF SendsResolution(status, proofImageUrl) THEN << ResolutionCall(t) >> ELSE << >>)
OwnerCalls(ownerProfile, t, status, proofImageUrl) ==
    IF ownerProfile = None THEN << >>
    ELSE << UpdateCall(t, status) >>
         \o (IF SendsResolution(status, proofImageUrl) THEN << ResolutionCall(t) >> ELSE << >>)

\* lines 1037-1042
UpdateStatus(p, user, id, body) ==
    /\ Start(p, [NoReq EXCEPT !.op = "status", !.user = user, !.ticketId = id,
                              !.status = body[1], !.resolution = body[2],
                              !.proofImageUrl = body[3]])
    /\ IF user = NULL THEN Respond(p, 401, "Unauthorized") ELSE Goto(p, "st_getProfile")
    /\ UNCHANGED << now, kvVars, localVars >>

\* lines 1045-1051
StGetProfile(p) ==
    /\ pc[p] = "st_getProfile"
    /\ IF IsAuthority(Get(kv_user_profile, req[p].user))
         THEN Goto(p, "st_getTicket")
         ELSE Respond(p, 403, "Insufficient permissions")
    /\ UNCHANGED << now, kvVars, req, localVars, nreq >>

\* lines 1053-1069
StGetTicket(p) ==
    /\ pc[p] = "st_getTicket"
    /\ LET got == Get(kv_ticket, req[p].ticketId)
       IN IF got = None
            THEN Respond(p, 404, "Ticket not found") /\ UNCHANGED ticket
            ELSE /\ ticket' = [ticket EXCEPT ![p] =
                        Some(WithStatus(Val(got), req[p].status, req[p].resolution,
                                        req[p].proofImageUrl, req[p].user, now))]
                 /\ Goto(p, "st_setTicket")
    /\ UNCHANGED << now, kvVars, req, userTickets, notifications, pending, nreq, moreLocals >>

\* line 1071
StSetTicket(p) ==
    /\ pc[p] = "st_setTicket"
    /\ kv_ticket' = Set(kv_ticket, req[p].ticketId, Val(ticket[p]))
    /\ Goto(p, "st_getOwner")
    /\ UNCHANGED << now, kv_user_tickets, kv_user_profile, kv_upvote, kv_notifications,
                    req, localVars, nreq, kv_profile_otp >>

\* lines 1074-1097
StGetOwner(p) ==
    /\ pc[p] = "st_getOwner"
    /\ Notify(p, OwnerCalls(Get(kv_user_profile, Val(ticket[p]).userId), Val(ticket[p]),
                            req[p].status, req[p].proofImageUrl))
    /\ UNCHANGED << now, kvVars, req, ticket, userTickets, notifications, nreq, moreLocals >>

\* ------------------------------------------------------------------ upvote
\* line 1122
UpvoteKey(id, user) == << id, user >>

\* lines 1125-1127: the response to a voter whose upvote record exists
AlreadyUpvotedCode == 400

\* line 1125
AlreadyUpvoted_Never(existingUpvote) == FALSE
AlreadyUpvoted(existingUpvote) == existingUpvote # None

\* line 1131
Increment_None(t) == t
Increment_ByTwo(t) == [t EXCEPT !.upvotes = t.upvotes + 2]
Increment(t) == [t EXCEPT !.upvotes = t.upvotes + 1]

\* lines 1136-1142
UpvoteCall(t) ==
    [userId |-> t.userId, type |-> "ticket_upvote", title |-> "Your Issue Got Support",
     message |-> << "Someone upvoted your ticket. Total votes:", t.id, t.upvotes >>,
     ticketId |-> t.id]

\* lines 1107-1114
Upvote(p, user, id) ==
    /\ Start(p, [NoReq EXCEPT !.op = "upvote", !.user = user, !.ticketId = id])
    /\ IF user = NULL THEN Respond(p, 401, "Unauthorized") ELSE Goto(p, "up_getTicket")
    /\ UNCHANGED << now, kvVars, localVars >>

\* lines 1115-1119
UpGetTicket(p) ==
    /\ pc[p] = "up_getTicket"
    /\ LET got == Get(kv_ticket, req[p].ticketId)
       IN IF got = None
            THEN Respond(p, 404, "Ticket not found") /\ UNCHANGED ticket
            ELSE ticket' = [ticket EXCEPT ![p] = got] /\ Goto(p, "up_getUpvote")
    /\ UNCHANGED << now, kvVars, req, userTickets, notifications, pending, nreq, moreLocals >>

\* lines 1129-1130: the record kv.set is called with
UpvoteRecord(user, id, t) == [userId |-> user, ticketId |-> id, createdAt |-> t]

\* lines 1123-1130: to the kv.set call of line 1130, whose record is built, with
\* the time, when the call is made
UpGetUpvote(p) ==
    /\ pc[p] = "up_getUpvote"
    /\ IF AlreadyUpvoted(Get(kv_upvote, UpvoteKey(req[p].ticketId, req[p].user)))
         THEN /\ Respond(p, AlreadyUpvotedCode, "Already upvoted")
              /\ UNCHANGED upvoteRecord
         ELSE /\ Goto(p, "up_setUpvote")
              /\ upvoteRecord' = [upvoteRecord EXCEPT ![p] =
                                    Some(UpvoteRecord(req[p].user, req[p].ticketId, now))]
    /\ UNCHANGED << now, kvVars, req, ticket, userTickets, notifications, pending, nreq,
                    myTickets, updatedProfile >>

\* lines 1130-1133: kv.set stores the record, and the handler counts the upvote
UpSetUpvote(p) ==
    /\ pc[p] = "up_setUpvote"
    /\ kv_upvote' = Set(kv_upvote, UpvoteKey(req[p].ticketId, req[p].user),
                        Val(upvoteRecord[p]))
    /\ ticket' = [ticket EXCEPT ![p] = Some(Increment(Val(ticket[p])))]
    /\ Goto(p, "up_setTicket")
    /\ UNCHANGED << now, kv_ticket, kv_user_tickets, kv_user_profile, kv_notifications,
                    req, userTickets, notifications, pending, nreq, moreLocals, kv_profile_otp >>

\* lines 1135-1143: the createNotification call made for the ticket owner
UpvoteCalls_Always(t, user) == << UpvoteCall(t) >>
UpvoteCalls(t, user) == IF t.userId # user THEN << UpvoteCall(t) >> ELSE << >>

\* lines 1132-1145
UpSetTicket(p) ==
    /\ pc[p] = "up_setTicket"
    /\ kv_ticket' = Set(kv_ticket, req[p].ticketId, Val(ticket[p]))
    /\ Notify(p, UpvoteCalls(Val(ticket[p]), req[p].user))
    /\ UNCHANGED << now, kv_user_tickets, kv_user_profile, kv_upvote, kv_notifications,
                    req, ticket, userTickets, notifications, nreq, moreLocals, kv_profile_otp >>

\* ------------------------------------------------------- sign up and profile
\* the users the identity provider has or creates: a3 is the user a signup creates
Names == [a1 |-> "Authority One", a2 |-> "Authority Two", a3 |-> "Authority Three",
          c1 |-> "Citizen One", c2 |-> "Citizen Two"]
Emails == [a1 |-> "a1@example.com", a2 |-> "a2@example.com", a3 |-> "a3@example.com",
           c1 |-> "c1@example.com", c2 |-> "c2@example.com"]
Aadhaar == [a1 |-> "111111111111", a2 |-> "222222222222", a3 |-> "444444444444",
            c1 |-> "333333333333"]

\* /^\d{12}$/ on the strings the model uses
TwelveDigits == {"111111111111", "222222222222", "333333333333", "444444444444",
                 "999999999999"}
WellFormed(aadhaar) == aadhaar # NULL /\ aadhaar \in TwelveDigits

\* String.prototype.trim on the strings the model uses
trim(s) ==
    CASE s = "  " -> ""
      [] s = " New Name " -> "New Name"
      [] OTHER -> s
\* s || ''
OrEmpty(s) == IF Falsy(s) THEN "" ELSE s

\* the bodies of the signup requests the model sends
SignupBody == [email |-> Emails["a3"], password |-> "secret", name |-> Names["a3"],
               aadhaar |-> Aadhaar["a3"], role |-> "authority"]
SignupBodies == { SignupBody, [SignupBody EXCEPT !.role = NULL],
                  [SignupBody EXCEPT !.name = NULL], [SignupBody EXCEPT !.aadhaar = "12ab"],
                  [SignupBody EXCEPT !.email = Emails["c1"]] }
\* the bodies of the profile requests
ProfileBody == [name |-> " New Name ", phone |-> "555", address |-> NULL,
                department |-> NULL, designation |-> NULL, employeeId |-> NULL,
                profileImage |-> NULL]
ProfileBodies == { ProfileBody, [ProfileBody EXCEPT !.name = "  "],
                   [ProfileBody EXCEPT !.name = NULL] }
\* <<caller, body>>
SentProfiles == ({NULL, "c1"} \X {ProfileBody}) \cup ({"c2"} \X ProfileBodies)
\* the signup and profile requests sent among the ticket requests: those that
\* change the stored profiles
ConcSignups == {SignupBody}
ConcProfiles == {"c2"} \X {ProfileBody}

\* line 872
SignupComplete(body) ==
    ~(Falsy(body.email) \/ Falsy(body.password) \/ Falsy(body.name) \/ Falsy(body.aadhaar))

\* lines 883-887: user_metadata of the new user
SignupMetadata(body) ==
    [name |-> body.name, aadhaar |-> body.aadhaar,
     role |-> IF Falsy(body.role) THEN "citizen" ELSE body.role]
\* lines 897-904
SignupProfile(id, body, t) ==
    [id |-> id, name |-> body.name, email |-> body.email, aadhaar |-> body.aadhaar,
     role |-> IF Falsy(body.role) THEN "citizen" ELSE body.role, createdAt |-> t]

\* the id supabase.auth.admin.createUser gives the user of an email
NewUser(email) == CHOOSE u \in DOMAIN Emails : Emails[u] = email

\* lines 867-879: to the createUser call of line 880
Signup(p, body) ==
    /\ Start(p, [NoReq EXCEPT !.op = "signup", !.body = Some(body)])
    /\ IF ~SignupComplete(body) THEN Respond(p, 400, "Missing required fields")
       ELSE IF ~WellFormed(body.aadhaar)
         THEN Respond(p, 400, "Invalid Aadhaar number format")
       ELSE Goto(p, "su_create")
    /\ UNCHANGED << now, kvVars, localVars, password, user_metadata >>

\* lines 880-904: createUser returns an error, for one when the email is
\* registered, or creates the user; the handler builds the profile and calls kv.set
SuCreate(p) ==
    /\ pc[p] = "su_create"
    /\ LET body == Val(req[p].body)
           u == NewUser(body.email)
       IN \/ /\ u \in DOMAIN password
             /\ Respond(p, 400, "A user with this email address has already been registered")
             /\ UNCHANGED << password, user_metadata, updatedProfile >>
          \/ /\ Respond(p, 400, "Database error creating new user")
             /\ UNCHANGED << password, user_metadata, updatedProfile >>
          \/ /\ u \notin DOMAIN password
             /\ password' = Set(password, u, body.password)
             /\ user_metadata' = Set(user_metadata, u, SignupMetadata(body))
             /\ updatedProfile' = [updatedProfile EXCEPT ![p] =
                                      Some(SignupProfile(u, body, now))]
             /\ Goto(p, "su_set")
    /\ UNCHANGED << now, kvVars, req, nreq, ticket, userTickets, notifications, pending,
                    upvoteRecord, myTickets >>

\* lines 897-906
SuSet(p) ==
    /\ pc[p] = "su_set"
    /\ kv_user_profile' = Set(kv_user_profile, Val(updatedProfile[p]).id,
                              Val(updatedProfile[p]))
    /\ Respond(p, 200, "")
    /\ UNCHANGED << now, kv_ticket, kv_user_tickets, kv_upvote, kv_notifications,
                    kv_profile_otp, req, nreq, localVars, password, user_metadata >>

\* lines 1326, 1337-1344, 1356-1363: the fields a profile update sets
ProfileFields(body, t) ==
    [name |-> trim(body.name), phone |-> OrEmpty(body.phone),
     address |-> OrEmpty(body.address), department |-> OrEmpty(body.department),
     designation |-> OrEmpty(body.designation), employeeId |-> OrEmpty(body.employeeId),
     profileImage |-> OrEmpty(body.profileImage), lastProfileUpdate |-> t]

\* line 1328: !name?.trim()
NameMissing(body) == Falsy(body.name) \/ trim(body.name) = ""

\* lines 1316-1332: to the updateUserById call of line 1333, whose user_metadata
\* is built from the user of the token
UpdateProfile(p, user, body) ==
    /\ Start(p, [NoReq EXCEPT !.op = "profile", !.user = user, !.body = Some(body)])
    /\ IF user = NULL THEN Respond(p, 401, "Unauthorized") /\ UNCHANGED updatedProfile
       ELSE IF NameMissing(body)
         THEN Respond(p, 400, "Name is required") /\ UNCHANGED updatedProfile
       ELSE /\ Goto(p, "pf_update")
            /\ updatedProfile' = [updatedProfile EXCEPT ![p] =
                                    Some(Spread(user_metadata[user], ProfileFields(body, now)))]
    /\ UNCHANGED << now, kvVars, ticket, userTickets, notifications, pending,
                    upvoteRecord, myTickets, password, user_metadata >>

\* lines 1333-1353: updateUserById returns an error or sets the user_metadata
PfUpdate(p) ==
    /\ pc[p] = "pf_update"
    /\ \/ /\ user_metadata' = [user_metadata EXCEPT ![req[p].user] = Val(updatedProfile[p])]
          /\ Goto(p, "pf_get")
       \/ /\ Respond(p, 500, "Failed to update profile")
          /\ UNCHANGED user_metadata
    /\ UNCHANGED << now, kvVars, req, nreq, localVars, password >>

\* lines 1353-1363
PfGet(p) ==
    /\ pc[p] = "pf_get"
    /\ LET got == Get(kv_user_profile, req[p].user)
           userProfile == IF got = None THEN << >> ELSE Val(got)
       IN updatedProfile' = [updatedProfile EXCEPT ![p] =
             Some(Spread(userProfile, ProfileFields(Val(req[p].body), now)))]
    /\ Goto(p, "pf_set")
    /\ UNCHANGED << now, kvVars, req, nreq, ticket, userTickets, notifications, pending,
                    upvoteRecord, myTickets, password, user_metadata >>

\* lines 1365-1371
PfSet(p) ==
    /\ pc[p] = "pf_set"
    /\ kv_user_profile' = Set(kv_user_profile, req[p].user, Val(updatedProfile[p]))
    /\ Respond(p, 200, "")
    /\ UNCHANGED << now, kv_ticket, kv_user_tickets, kv_upvote, kv_notifications,
                    kv_profile_otp, req, nreq, localVars, password, user_metadata >>

\* what the signup and profile requests leave alone
profIdle == << readVars, kv_otp, otpData, rpProfile, appVars, wizVars >>

\* --------------------------------------------------------- the environment
\* The response has been sent; the slot is free for the next request.
Return(p) ==
    /\ pc[p] = "done"
    /\ pc' = [pc EXCEPT ![p] = "idle"]
    /\ req' = [req EXCEPT ![p] = NoReq]
    /\ resp' = [resp EXCEPT ![p] = NoResp]
    /\ ticket' = [ticket EXCEPT ![p] = None]
    /\ userTickets' = [userTickets EXCEPT ![p] = << >>]
    /\ notifications' = [notifications EXCEPT ![p] = << >>]
    /\ pending' = [pending EXCEPT ![p] = << >>]
    /\ upvoteRecord' = [upvoteRecord EXCEPT ![p] = None]
    /\ myTickets' = [myTickets EXCEPT ![p] = << >>]
    /\ updatedProfile' = [updatedProfile EXCEPT ![p] = None]
    /\ UNCHANGED << now, kvVars, nreq >>

\* Time passes.
Tick ==
    /\ now < MaxClock
    /\ now' = now + 1
    /\ UNCHANGED << kvVars, pc, req, localVars, resp, nreq >>

\* A request arrives.
Begin(p, submits, statuses, upvotes) ==
    \/ \E r \in submits : SubmitTicket(p, r[1], r[2])
    \/ \E r \in statuses : UpdateStatus(p, r[1], r[2], r[3])
    \/ \E r \in upvotes : Upvote(p, r[1], r[2])

\* Slots are handed out in order: a request takes the first free one.
FirstFree(p) == pc[p] = "idle" /\ \A q \in Procs : pc[q] = "idle" => ~(q < p)

\* user_profile_ records written by signup (lines 897-904), at time 0
Profile(u, role) ==
    SignupProfile(u, [email |-> Emails[u], password |-> "old", name |-> Names[u],
                      aadhaar |-> Aadhaar[u], role |-> role], 0)
InitProfiles ==
    [u \in {"a1", "a2", "c1"} |-> Profile(u, IF u = "c1" THEN "citizen" ELSE "authority")]

EmptyStore == [ticket |-> << >>, user_tickets |-> << >>, upvote |-> << >>,
               notifications |-> << >>]

\* The store after one submit request by c1 at time 0 (lines 930-965).
SeedTicket == NewTicket(0, "c1", "pothole", LocOK)
SeedStore ==
    [ticket |-> (0 :> SeedTicket),
     user_tickets |-> ("c1" :> PushTicketId(<< >>, 0)),
     upvote |-> << >>,
     notifications |->
        [u \in {"a1", "a2"} |->
            Unshift(<< >>, Notification(0, 0, NewTicketCall(InitProfiles[u], SeedTicket)))]]

InitTickets(s, n) ==
    /\ now = 0
    /\ kv_ticket = s.ticket
    /\ kv_user_tickets = s.user_tickets
    /\ kv_user_profile = InitProfiles
    /\ kv_upvote = s.upvote
    /\ kv_notifications = s.notifications
    /\ pc = [p \in Procs |-> "idle"]
    /\ req = [p \in Procs |-> NoReq]
    /\ ticket = [p \in Procs |-> None]
    /\ userTickets = [p \in Procs |-> << >>]
    /\ notifications = [p \in Procs |-> << >>]
    /\ pending = [p \in Procs |-> << >>]
    /\ upvoteRecord = [p \in Procs |-> None]
    /\ myTickets = [p \in Procs |-> << >>]
    /\ updatedProfile = [p \in Procs |-> None]
    /\ kv_profile_otp = << >>
    /\ resp = [p \in Procs |-> NoResp]
    /\ nreq = n
    /\ before = EmptyStore
    /\ okUpvotes = [id \in TicketIds |-> << >>]
    /\ query = None
    /\ result = None

\* no password request is being served (lines 1209-1313)
OtpIdle ==
    /\ password = [u \in Users |-> "old"]
    /\ user_metadata = [u \in Users |->
                            IF u \in DOMAIN InitProfiles
                              THEN SignupMetadata(Profile(u, InitProfiles[u].role))
                              ELSE << >>]
    /\ otpData = [p \in Procs |-> None]
    /\ rpProfile = [p \in Procs |-> None]

\* no OTP has been asked for
NoOtp == kv_otp = << >> /\ OtpIdle

\* the App component before it is mounted (part_000, lines 313-314)
NoApp ==
    /\ appState = "loading"
    /\ appUser = None
    /\ running = << >>

\* the RaiseTicketFlow component before it is mounted (lines 106-117)
NoWizard ==
    /\ step = 1
    /\ ticketData = [category |-> "", location |-> None]
    /\ locationLoading = FALSE
    /\ loading = FALSE
    /\ submittedTicket = None
    /\ awaiting = [fn \in {"getCurrentLocation", "handleAutoDigiPin",
                             "handleImageUpload"} |-> 0]
    /\ submitCalls = << >>

InitWith(s, n) == InitTickets(s, n) /\ NoOtp /\ NoApp /\ NoWizard

\* The store after one submit request by c1 and n status requests for its ticket
\* by a1, all at time 0: the feed of c1 holds n entries.
FedTicket == WithStatus(SeedTicket, "in-progress", NULL, NULL, "a1", 0)
FedStore(n) ==
    [SeedStore EXCEPT
        !.ticket = (0 :> FedTicket),
        !.notifications = [u \in {"a1", "a2", "c1"} |->
            IF u = "c1"
              THEN [i \in 1 .. n |->
                       Notification(0, n + 1 - i, UpdateCall(FedTicket, "in-progress"))]
              ELSE SeedStore.notifications[u]]]

\* Requests overlap: each slot serves one request, and the server has served one
\* submit request before.
Init == InitWith(SeedStore, 0)

Next ==
    \/ \E p \in Procs : FirstFree(p) /\ Begin(p, ConcSubmits, ConcStatuses, ConcUpvotes)
                        /\ UNCHANGED << histVars, idleVars >>
    \/ \E p \in Procs : /\ FirstFree(p)
                        /\ \E body \in ConcSignups : Signup(p, body)
                        /\ UNCHANGED << histVars, profIdle >>
    \/ \E p \in Procs : /\ FirstFree(p)
                        /\ \E r \in ConcProfiles : UpdateProfile(p, r[1], r[2])
                        /\ UNCHANGED << histVars, profIdle >>
    \/ \E p \in Procs : SuCreate(p) /\ UNCHANGED << histVars, profIdle >>
    \/ \E p \in Procs : SuSet(p) /\ UNCHANGED << histVars, profIdle >>
    \/ \E p \in Procs : PfUpdate(p) /\ UNCHANGED << histVars, profIdle >>
    \/ \E p \in Procs : PfGet(p) /\ UNCHANGED << histVars, profIdle >>
    \/ \E p \in Procs : PfSet(p) /\ UNCHANGED << histVars, profIdle >>
    \/ \E p \in Procs : CrSetTicket(p) /\ UNCHANGED << histVars, idleVars >>
    \/ \E p \in Procs : CrGetUserTickets(p) /\ UNCHANGED << histVars, idleVars >>
    \/ \E p \in Procs : CrSetUserTickets(p) /\ UNCHANGED << histVars, idleVars >>
    \/ \E p \in Procs : CrGetProfiles(p) /\ UNCHANGED << histVars, idleVars >>
    \/ \E p \in Procs : StGetProfile(p) /\ UNCHANGED << histVars, idleVars >>
    \/ \E p \in Procs : StGetTicket(p) /\ UNCHANGED << histVars, idleVars >>
    \/ \E p \in Procs : StSetTicket(p) /\ UNCHANGED << histVars, idleVars >>
    \/ \E p \in Procs : StGetOwner(p) /\ UNCHANGED << histVars, idleVars >>
    \/ \E p \in Procs : UpGetTicket(p) /\ UNCHANGED << histVars, idleVars >>
    \/ \E p \in Procs : UpGetUpvote(p) /\ UNCHANGED << histVars, idleVars >>
    \/ \E p \in Procs : UpSetUpvote(p) /\ UNCHANGED << histVars, idleVars >>
    \/ \E p \in Procs : UpSetTicket(p) /\ UNCHANGED << histVars, idleVars >>
    \/ \E p \in Procs : NGet(p) /\ UNCHANGED << histVars, idleVars >>
    \/ \E p \in Procs : NSet(p) /\ UNCHANGED << histVars, idleVars >>
    \/ Tick /\ UNCHANGED << histVars, idleVars >>

Spec == Init /\ [][Next]_vars

\* Requests run one after another: from the store after one submit request, or,
\* with one request fewer to serve, from the empty store or from a store whose feed
\* of c1 is full or one short of full.  The suffix drawn for a notification is one
\* that no entry of its time has: repeated draws are followed where requests
\* overlap and where entries are marked and deleted.
Idle == \A p \in Procs : pc[p] = "idle"

InitSeq ==
    \/ InitWith(SeedStore, 0)
    \/ InitWith(EmptyStore, 1)
    \/ \E n \in {NotifCap - 1, NotifCap} : InitWith(FedStore(n), 1)

\* history: the voters of the successful Upvote calls per ticket since the ticket
\* was created, recorded when the response is sent
Counted(p) ==
    IF resp[p].code = 200 /\ req[p].op = "upvote"
      THEN [okUpvotes EXCEPT ![req[p].ticketId] = Append(@, req[p].user)]
    ELSE IF resp[p].code = 200 /\ req[p].op = "submit"
      THEN [okUpvotes EXCEPT ![Val(ticket[p]).id] = << >>]
    ELSE okUpvotes

NextSeq ==
    \/ \E p \in Procs : /\ Idle /\ FirstFree(p)
                        /\ Begin(p, SeqSubmits, SeqStatuses, SeqUpvotes)
                        /\ before' = store /\ UNCHANGED << okUpvotes, idleVars >>
    \/ \E p \in Procs : /\ Idle /\ FirstFree(p)
                        /\ \E body \in ConcSignups : Signup(p, body)
                        /\ before' = store /\ UNCHANGED << okUpvotes, profIdle >>
    \/ \E p \in Procs : /\ Idle /\ FirstFree(p)
                        /\ \E r \in ConcProfiles : UpdateProfile(p, r[1], r[2])
                        /\ before' = store /\ UNCHANGED << okUpvotes, profIdle >>
    \/ \E p \in Procs : SuCreate(p) /\ UNCHANGED << histVars, profIdle >>
    \/ \E p \in Procs : SuSet(p) /\ UNCHANGED << histVars, profIdle >>
    \/ \E p \in Procs : PfUpdate(p) /\ UNCHANGED << histVars, profIdle >>
    \/ \E p \in Procs : PfGet(p) /\ UNCHANGED << histVars, profIdle >>
    \/ \E p \in Procs : PfSet(p) /\ UNCHANGED << histVars, profIdle >>
    \/ \E p \in Procs : CrSetTicket(p) /\ UNCHANGED << histVars, idleVars >>
    \/ \E p \in Procs : CrGetUserTickets(p) /\ UNCHANGED << histVars, idleVars >>
    \/ \E p \in Procs : CrSetUserTickets(p) /\ UNCHANGED << histVars, idleVars >>
    \/ \E p \in Procs : CrGetProfiles(p) /\ UNCHANGED << histVars, idleVars >>
    \/ \E p \in Procs : StGetProfile(p) /\ UNCHANGED << histVars, idleVars >>
    \/ \E p \in Procs : StGetTicket(p) /\ UNCHANGED << histVars, idleVars >>
    \/ \E p \in Procs : StSetTicket(p) /\ UNCHANGED << histVars, idleVars >>
    \/ \E p \in Procs : StGetOwner(p) /\ UNCHANGED << histVars, idleVars >>
    \/ \E p \in Procs : UpGetTicket(p) /\ UNCHANGED << histVars, idleVars >>
    \/ \E p \in Procs : UpGetUpvote(p) /\ UNCHANGED << histVars, idleVars >>
    \/ \E p \in Procs : UpSetUpvote(p) /\ UNCHANGED << histVars, idleVars >>
    \/ \E p \in Procs : UpSetTicket(p) /\ UNCHANGED << histVars, idleVars >>
    \/ \E p \in Procs : NGet(p) /\ NewSuffix(p)' /\ UNCHANGED << histVars, idleVars >>
    \/ \E p \in Procs : NSet(p) /\ UNCHANGED << histVars, idleVars >>
    \/ \E p \in Procs : /\ Return(p) /\ before' = EmptyStore /\ okUpvotes' = Counted(p)
                        /\ UNCHANGED idleVars
    \/ Tick /\ UNCHANGED << histVars, idleVars >>

SpecSeq == InitSeq /\ [][NextSeq]_vars

\* ------------------------------------------------------- failing store calls
\* A store call of a handler throws: the catch block of the handler answers 500
\* (lines 968-971, 1099-1102, 1147-1150).
HandlerCalls == {"cr_setTicket", "cr_getUserTickets", "cr_setUserTickets", "cr_getProfiles",
                 "st_getProfile", "st_getTicket", "st_setTicket", "st_getOwner",
                 "up_getTicket", "up_getUpvote", "up_setUpvote", "up_setTicket",
                 "su_create", "su_set", "pf_update", "pf_get", "pf_set",
                 "lm_getUserTickets", "lm_getTicket",
                 "ps_set", "po_get", "po_delExpired", "po_update", "po_getProfile",
                 "po_set", "po_del"}
CatchError(op) ==
    CASE op = "submit" -> "Internal server error while submitting ticket"
      [] op = "status" -> "Internal server error while updating ticket"
      [] op = "upvote" -> "Internal server error while upvoting"
      [] op = "mine" -> "Internal server error while fetching tickets"
      [] op = "signup" -> "Internal server error during signup"
      [] op = "profile" -> "Internal server error while updating profile"
      [] op = "profileOtp" -> "Failed to send OTP"
      [] op = "profileVerify" -> "Internal server error while updating profile"
      [] op = "forgot" -> "Failed to send OTP"
      [] op = "verify" -> "Failed to verify OTP"
      [] op = "reset" -> "Failed to reset password"
KvThrows(p) ==
    /\ pc[p] \in HandlerCalls
    /\ Respond(p, 500, CatchError(req[p].op))
    /\ UNCHANGED << now, kvVars, req, localVars, nreq >>

\* A store call of createNotification throws: the catch block of lines 1767-1769
\* logs the error, and the handler makes its next call or responds.
NThrows(p) ==
    /\ pc[p] \in {"n_get", "n_set"}
    /\ Notify(p, Tail(pending[p]))
    /\ UNCHANGED << now, kvVars, req, ticket, userTickets, notifications, nreq, moreLocals >>

\* Requests run one after another and store calls may throw; the server has
\* served one submit request before.
InitFail == InitWith(SeedStore, 1)

NextFail ==
    \/ \E p \in Procs : /\ Idle /\ FirstFree(p)
                        /\ Begin(p, ConcSubmits, ConcStatuses, ConcUpvotes)
                        /\ before' = store /\ UNCHANGED << okUpvotes, idleVars >>
    \/ \E p \in Procs : /\ Idle /\ FirstFree(p)
                        /\ \E body \in ConcSignups : Signup(p, body)
                        /\ before' = store /\ UNCHANGED << okUpvotes, profIdle >>
    \/ \E p \in Procs : /\ Idle /\ FirstFree(p)
                        /\ \E r \in ConcProfiles : UpdateProfile(p, r[1], r[2])
                        /\ before' = store /\ UNCHANGED << okUpvotes, profIdle >>
    \/ \E p \in Procs : SuCreate(p) /\ UNCHANGED << histVars, profIdle >>
    \/ \E p \in Procs : SuSet(p) /\ UNCHANGED << histVars, profIdle >>
    \/ \E p \in Procs : PfUpdate(p) /\ UNCHANGED << histVars, profIdle >>
    \/ \E p \in Procs : PfGet(p) /\ UNCHANGED << histVars, profIdle >>
    \/ \E p \in Procs : PfSet(p) /\ UNCHANGED << histVars, profIdle >>
    \/ \E p \in Procs : CrSetTicket(p) /\ UNCHANGED << histVars, idleVars >>
    \/ \E p \in Procs : CrGetUserTickets(p) /\ UNCHANGED << histVars, idleVars >>
    \/ \E p \in Procs : CrSetUserTickets(p) /\ UNCHANGED << histVars, idleVars >>
    \/ \E p \in Procs : CrGetProfiles(p) /\ UNCHANGED << histVars, idleVars >>
    \/ \E p \in Procs : StGetProfile(p) /\ UNCHANGED << histVars, idleVars >>
    \/ \E p \in Procs : StGetTicket(p) /\ UNCHANGED << histVars, idleVars >>
    \/ \E p \in Procs : StSetTicket(p) /\ UNCHANGED << histVars, idleVars >>
    \/ \E p \in Procs : StGetOwner(p) /\ UNCHANGED << histVars, idleVars >>
    \/ \E p \in Procs : UpGetTicket(p) /\ UNCHANGED << histVars, idleVars >>
    \/ \E p \in Procs : UpGetUpvote(p) /\ UNCHANGED << histVars, idleVars >>
    \/ \E p \in Procs : UpSetUpvote(p) /\ UNCHANGED << histVars, idleVars >>
    \/ \E p \in Procs : UpSetTicket(p) /\ UNCHANGED << histVars, idleVars >>
    \/ \E p \in Procs : NGet(p) /\ UNCHANGED << histVars, idleVars >>
    \/ \E p \in Procs : NSet(p) /\ UNCHANGED << histVars, idleVars >>
    \/ \E p \in Procs : KvThrows(p) /\ UNCHANGED << histVars, idleVars >>
    \/ \E p \in Procs : NThrows(p) /\ UNCHANGED << histVars, idleVars >>
    \/ \E p \in Procs : /\ Return(p) /\ before' = EmptyStore /\ okUpvotes' = Counted(p)
                        /\ UNCHANGED idleVars
    \/ Tick /\ UNCHANGED << histVars, idleVars >>

SpecFail == InitFail /\ [][NextFail]_vars

\* The awaited call of the handler serving slot p returns or throws, and the handler
\* runs to its next await or to its response.
HandlerStep(p) ==
    \/ CrSetTicket(p) \/ CrGetUserTickets(p) \/ CrSetUserTickets(p) \/ CrGetProfiles(p)
    \/ StGetProfile(p) \/ StGetTicket(p) \/ StSetTicket(p) \/ StGetOwner(p)
    \/ UpGetTicket(p) \/ UpGetUpvote(p) \/ UpSetUpvote(p) \/ UpSetTicket(p)
    \/ NGet(p) \/ NSet(p) \/ KvThrows(p) \/ NThrows(p)
ProfileStep(p) == SuCreate(p) \/ SuSet(p) \/ PfUpdate(p) \/ PfGet(p) \/ PfSet(p)

\* Every store call returns or throws: a handler that waits for one goes on. Nothing
\* is assumed about the arrival of requests or the passing of time.
Returning ==
    \A p \in Procs : WF_vars(\/ (HandlerStep(p) /\ UNCHANGED << histVars, idleVars >>)
                              \/ (ProfileStep(p) /\ UNCHANGED << histVars, profIdle >>))
SpecLive == InitFail /\ [][NextFail]_vars /\ Returning

\* ------------------------------------------------------- marking as read
MaxFeed == 2           \* entries in a feed the mark requests are sent to

\* lines 1710-1712
MarkedRead_All(feed, notificationId) ==
    [i \in 1 .. Len(feed) |-> [feed[i] EXCEPT !.read = TRUE]]
MarkedRead(feed, notificationId) ==
    [i \in 1 .. Len(feed) |->
        IF feed[i].id = notificationId THEN [feed[i] EXCEPT !.read = TRUE] ELSE feed[i]]

\* line 1734
AllMarkedRead(feed) == [i \in 1 .. Len(feed) |-> [feed[i] EXCEPT !.read = TRUE]]

\* lines 1700-1707
MarkRead(p, user, notificationId) ==
    /\ Start(p, [NoReq EXCEPT !.op = "markRead", !.user = user,
                              !.notificationId = Some(notificationId)])
    /\ IF user = NULL THEN Respond(p, 401, "Unauthorized") ELSE Goto(p, "mr_get")
    /\ UNCHANGED << now, kvVars, localVars >>

\* lines 1708-1712
MrGet(p) ==
    /\ pc[p] = "mr_get"
    /\ LET got == Get(kv_notifications, req[p].user)
           feed == IF got = None THEN << >> ELSE Val(got)
       IN notifications' = [notifications EXCEPT ![p] =
                               MarkedRead(feed, Val(req[p].notificationId))]
    /\ Goto(p, "mr_set")
    /\ UNCHANGED << now, kvVars, req, ticket, userTickets, pending, nreq, moreLocals >>

\* lines 1714-1716
MrSet(p) ==
    /\ pc[p] = "mr_set"
    /\ kv_notifications' = Set(kv_notifications, req[p].user, notifications[p])
    /\ Respond(p, 200, "")
    /\ UNCHANGED << now, kv_ticket, kv_user_tickets, kv_user_profile, kv_upvote,
                    req, localVars, nreq, kv_profile_otp >>

\* lines 1726-1731
MarkAllRead(p, user) ==
    /\ Start(p, [NoReq EXCEPT !.op = "markAllRead", !.user = user])
    /\ IF user = NULL THEN Respond(p, 401, "Unauthorized") ELSE Goto(p, "ma_get")
    /\ UNCHANGED << now, kvVars, localVars >>

\* lines 1733-1734
MaGet(p) ==
    /\ pc[p] = "ma_get"
    /\ LET got == Get(kv_notifications, req[p].user)
           feed == IF got = None THEN << >> ELSE Val(got)
       IN notifications' = [notifications EXCEPT ![p] = AllMarkedRead(feed)]
    /\ Goto(p, "ma_set")
    /\ UNCHANGED << now, kvVars, req, ticket, userTickets, pending, nreq, moreLocals >>

\* lines 1736-1738
MaSet(p) ==
    /\ pc[p] = "ma_set"
    /\ kv_notifications' = Set(kv_notifications, req[p].user, notifications[p])
    /\ Respond(p, 200, "")
    /\ UNCHANGED << now, kv_ticket, kv_user_tickets, kv_user_profile, kv_upvote,
                    req, localVars, nreq, kv_profile_otp >>

\* The store after one submit request by c1, status requests for its ticket by a1
\* and an upvote by c2, all at time 0, the two createNotification calls for c1
\* having drawn the same suffix: the feed of c1 holds two entries with one id.
TwinStore ==
    [SeedStore EXCEPT
        !.ticket = (0 :> Increment(FedTicket)),
        !.upvote = (UpvoteKey(0, "c2") :> [userId |-> "c2", ticketId |-> 0, createdAt |-> 0]),
        !.notifications = [u \in {"a1", "a2", "c1"} |->
            IF u = "c1"
              THEN Unshift(Unshift(<< >>, Notification(0, 1, UpdateCall(FedTicket, "in-progress"))),
                           Notification(0, 1, UpvoteCall(Increment(FedTicket))))
              ELSE SeedStore.notifications[u]]]

\* the mark requests sent: the ids are those of the entries of the feeds of c1, and
\* the id of the entry of the feeds of a1 and a2, which no feed of c1 holds
MarkCallers == {NULL, "a1", "c1", "c2"}
MarkIds == {<< 0, r >> : r \in 0 .. MaxFeed}

\* Mark requests run one after another, on the stores whose feed of c1 holds up to
\* MaxFeed entries, or two entries with one id, or is not stored.
InitMark ==
    \/ InitWith(SeedStore, 0)
    \/ InitWith(TwinStore, 0)
    \/ \E n \in 0 .. MaxFeed : InitWith(FedStore(n), 0)

NextMark ==
    \/ \E p \in Procs : /\ Idle /\ FirstFree(p)
                        /\ \E user \in MarkCallers, id \in MarkIds : MarkRead(p, user, id)
                        /\ before' = store /\ UNCHANGED << okUpvotes, idleVars >>
    \/ \E p \in Procs : /\ Idle /\ FirstFree(p)
                        /\ \E user \in MarkCallers : MarkAllRead(p, user)
                        /\ before' = store /\ UNCHANGED << okUpvotes, idleVars >>
    \/ \E p \in Procs : MrGet(p) /\ UNCHANGED << histVars, idleVars >>
    \/ \E p \in Procs : MrSet(p) /\ UNCHANGED << histVars, idleVars >>
    \/ \E p \in Procs : MaGet(p) /\ UNCHANGED << histVars, idleVars >>
    \/ \E p \in Procs : MaSet(p) /\ UNCHANGED << histVars, idleVars >>
    \/ \E p \in Procs : /\ Return(p) /\ UNCHANGED << before, okUpvotes, idleVars >>

SpecMark == InitMark /\ [][NextMark]_vars

\* ---------------------------------------------------- overlapping feed writes
\* The requests that write the feed of c1 overlap, each slot serving one: c1 marks
\* entries as read while a1 or c2 upvotes the ticket of c1, which calls
\* createNotification for c1.
FeedUpvotes == {"a1", "c2"} \X {0}
InitFeed == \E n \in 1 .. MaxFeed : InitWith(FedStore(n), 0)

NextFeed ==
    \/ \E p \in Procs : /\ FirstFree(p)
                        /\ \E id \in MarkIds : MarkRead(p, "c1", id)
                        /\ UNCHANGED << histVars, idleVars >>
    \/ \E p \in Procs : /\ FirstFree(p) /\ MarkAllRead(p, "c1")
                        /\ UNCHANGED << histVars, idleVars >>
    \/ \E p \in Procs : /\ FirstFree(p)
                        /\ \E r \in FeedUpvotes : Upvote(p, r[1], r[2])
                        /\ UNCHANGED << histVars, idleVars >>
    \/ \E p \in Procs : UpGetTicket(p) /\ UNCHANGED << histVars, idleVars >>
    \/ \E p \in Procs : UpGetUpvote(p) /\ UNCHANGED << histVars, idleVars >>
    \/ \E p \in Procs : UpSetUpvote(p) /\ UNCHANGED << histVars, idleVars >>
    \/ \E p \in Procs : UpSetTicket(p) /\ UNCHANGED << histVars, idleVars >>
    \/ \E p \in Procs : NGet(p) /\ UNCHANGED << histVars, idleVars >>
    \/ \E p \in Procs : NSet(p) /\ UNCHANGED << histVars, idleVars >>
    \/ \E p \in Procs : MrGet(p) /\ UNCHANGED << histVars, idleVars >>
    \/ \E p \in Procs : MrSet(p) /\ UNCHANGED << histVars, idleVars >>
    \/ \E p \in Procs : MaGet(p) /\ UNCHANGED << histVars, idleVars >>
    \/ \E p \in Procs : MaSet(p) /\ UNCHANGED << histVars, idleVars >>

SpecFeed == InitFeed /\ [][NextFeed]_vars

\* ------------------------------------------------------- password reset by OTP
MaxWait == 2           \* times the clock advances by the lifetime of an OTP

\* 10 * 60 * 1000 ms (line 1232)
OtpLifetime == 600000

\* Math.floor(100000 + Math.random() * 900000).toString(): two of its values
Otps == {"123456", "654321"}

\* allProfiles.find(profile => profile.aadhaar === aadhaar)
FindByAadhaar(profiles, aadhaar) ==
    LET all == AllProfiles(profiles)
        hits == {i \in 1 .. Len(all) : Field(all[i], "aadhaar") = aadhaar}
    IN IF hits = {} THEN None
       ELSE Some(all[CHOOSE i \in hits : \A j \in hits : i <= j])

\* lines 1228-1233; `verified` is undefined until the verify handler sets it
NewOtp(aadhaar, otp, time) ==
    [aadhaar |-> aadhaar, otp |-> otp, createdAt |-> time,
     expiresAt |-> time + OtpLifetime, verified |-> FALSE]

\* new Date() > new Date(otpData.expiresAt)
Expired(data, time) == time > data.expiresAt

\* !otpData || !otpData.verified
Unverified(got) == got = None \/ ~Val(got).verified

\* lines 1210-1216
ForgotPassword(p, aadhaar) ==
    /\ Start(p, [NoReq EXCEPT !.op = "forgot", !.aadhaar = aadhaar])
    /\ IF ~WellFormed(aadhaar) THEN Respond(p, 400, "Invalid Aadhaar number format")
       ELSE Goto(p, "fp_getProfiles")
    /\ UNCHANGED << now, kvVars, localVars, otpVars >>

\* lines 1218-1233
FpGetProfiles(p) ==
    /\ pc[p] = "fp_getProfiles"
    /\ LET userProfile == FindByAadhaar(kv_user_profile, req[p].aadhaar)
       IN IF userProfile = None
          THEN /\ Respond(p, 404, "User not found with this Aadhaar number")
               /\ UNCHANGED otpData
          ELSE /\ \E otp \in Otps :
                      otpData' = [otpData EXCEPT ![p] =
                                     Some(NewOtp(req[p].aadhaar, otp, now))]
               /\ Goto(p, "fp_set")
    /\ UNCHANGED << now, kvVars, req, localVars, nreq, kv_otp, password, rpProfile,
                    user_metadata >>

\* lines 1235-1240
FpSet(p) ==
    /\ pc[p] = "fp_set"
    /\ kv_otp' = Set(kv_otp, req[p].aadhaar, Val(otpData[p]))
    /\ Respond(p, 200, "")
    /\ UNCHANGED << now, kvVars, req, localVars, nreq, password, otpData, rpProfile, user_metadata >>

\* line 1250
VerifyOtp(p, aadhaar, otp) ==
    /\ Start(p, [NoReq EXCEPT !.op = "verify", !.aadhaar = aadhaar, !.otp = otp])
    /\ Goto(p, "vf_get")
    /\ UNCHANGED << now, kvVars, localVars, otpVars >>

\* lines 1252-1267
VfGet(p) ==
    /\ pc[p] = "vf_get"
    /\ LET got == Get(kv_otp, req[p].aadhaar)
       IN /\ otpData' = [otpData EXCEPT ![p] =
                            IF got # None /\ ~Expired(Val(got), now)
                                          /\ Val(got).otp = req[p].otp
                            THEN Some([Val(got) EXCEPT !.verified = TRUE])
                            ELSE got]
          /\ IF got = None THEN Respond(p, 400, "OTP not found or expired")
             ELSE IF Expired(Val(got), now) THEN Goto(p, "vf_del")
             ELSE IF Val(got).otp # req[p].otp THEN Respond(p, 400, "Invalid OTP")
             ELSE Goto(p, "vf_set")
    /\ UNCHANGED << now, kvVars, req, localVars, nreq, kv_otp, password, rpProfile,
                    user_metadata >>

\* lines 1258-1259
VfDel(p) ==
    /\ pc[p] = "vf_del"
    /\ kv_otp' = Del(kv_otp, req[p].aadhaar)
    /\ Respond(p, 400, "OTP has expired")
    /\ UNCHANGED << now, kvVars, req, localVars, nreq, password, otpData, rpProfile, user_metadata >>

\* lines 1268-1270
VfSet(p) ==
    /\ pc[p] = "vf_set"
    /\ kv_otp' = Set(kv_otp, req[p].aadhaar, Val(otpData[p]))
    /\ Respond(p, 200, "")
    /\ UNCHANGED << now, kvVars, req, localVars, nreq, password, otpData, rpProfile, user_metadata >>

\* line 1280
ResetPassword(p, aadhaar, newPassword) ==
    /\ Start(p, [NoReq EXCEPT !.op = "reset", !.aadhaar = aadhaar,
                              !.newPassword = newPassword])
    /\ Goto(p, "rp_get")
    /\ UNCHANGED << now, kvVars, localVars, otpVars >>

\* lines 1282-1285
RpGet(p) ==
    /\ pc[p] = "rp_get"
    /\ LET got == Get(kv_otp, req[p].aadhaar)
       IN /\ otpData' = [otpData EXCEPT ![p] = got]
          /\ IF Unverified(got) THEN Respond(p, 400, "OTP not verified")
             ELSE Goto(p, "rp_getProfiles")
    /\ UNCHANGED << now, kvVars, req, localVars, nreq, kv_otp, password, rpProfile,
                    user_metadata >>

\* lines 1288-1295: to the updateUserById call of line 1296, which is made with
\* the id of the profile found here
RpGetProfiles(p) ==
    /\ pc[p] = "rp_getProfiles"
    /\ rpProfile' = [rpProfile EXCEPT ![p] =
                           FindByAadhaar(kv_user_profile, req[p].aadhaar)]
    /\ IF rpProfile'[p] = None
       THEN Respond(p, 404, "User not found")
       ELSE Goto(p, "rp_update")
    /\ UNCHANGED << now, kvVars, req, localVars, nreq, kv_otp, password, otpData,
                    user_metadata >>

\* lines 1296-1303: supabase.auth.admin.updateUserById(userProfile.id, ...) sets
\* the password of that user or returns an error
RpUpdate(p) ==
    /\ pc[p] = "rp_update"
    /\ \/ /\ password' = [password EXCEPT ![Val(rpProfile[p]).id] = req[p].newPassword]
          /\ Goto(p, "rp_del")
       \/ /\ Respond(p, 500, "Failed to update password")
          /\ UNCHANGED password
    /\ UNCHANGED << now, kvVars, req, localVars, nreq, kv_otp, otpData, rpProfile, user_metadata >>

\* lines 1306-1308
RpDel(p) ==
    /\ pc[p] = "rp_del"
    /\ kv_otp' = Del(kv_otp, req[p].aadhaar)
    /\ Respond(p, 200, "")
    /\ UNCHANGED << now, kvVars, req, localVars, nreq, password, otpData, rpProfile, user_metadata >>

\* A store call of a password handler, or updateUserById, throws: the catch
\* block of the handler answers 500 (lines 1241-1244, 1271-1274, 1309-1312).
OtpCalls == {"fp_getProfiles", "fp_set", "vf_get", "vf_del", "vf_set",
             "rp_get", "rp_getProfiles", "rp_update", "rp_del"}
OtpThrows(p) ==
    /\ pc[p] \in OtpCalls
    /\ Respond(p, 500, CatchError(req[p].op))
    /\ UNCHANGED << now, kvVars, req, localVars, nreq, otpVars >>

\* Time passes: as long as an OTP lives.
Wait ==
    /\ now < MaxWait * OtpLifetime
    /\ now' = now + OtpLifetime
    /\ UNCHANGED << kvVars, pc, req, localVars, resp, nreq, otpVars >>

\* The OTP store when the first request of a behaviour arrives: no OTP, or the OTP
\* that c1 asked for at time 0, before or after c1 verified it.
OtpStores ==
    {<< >>,
     Set(<< >>, Aadhaar["c1"], NewOtp(Aadhaar["c1"], "123456", 0)),
     Set(<< >>, Aadhaar["c1"],
         [NewOtp(Aadhaar["c1"], "123456", 0) EXCEPT !.verified = TRUE])}

ForgotInputs == {NULL, "12ab", "999999999999", Aadhaar["c1"]}
VerifyInputs == {"999999999999", Aadhaar["c1"]} \X Otps
ResetInputs == {"999999999999", Aadhaar["c1"]} \X {"new"}
\* a signup with the Aadhaar number of c1: the handler does not look for a stored
\* profile with the number (lines 867-904)
OtpSignups == { [SignupBody EXCEPT !.aadhaar = Aadhaar["c1"]] }

\* The password requests overlap, each slot serving one.
InitOtp ==
    /\ InitTickets(EmptyStore, 0)
    /\ kv_otp \in OtpStores
    /\ OtpIdle /\ NoApp /\ NoWizard

NextOtp ==
    \/ \E p \in Procs : /\ FirstFree(p)
                        /\ \E aadhaar \in ForgotInputs : ForgotPassword(p, aadhaar)
                        /\ UNCHANGED << histVars, readVars, appVars, wizVars >>
    \/ \E p \in Procs : /\ FirstFree(p)
                        /\ \E r \in VerifyInputs : VerifyOtp(p, r[1], r[2])
                        /\ UNCHANGED << histVars, readVars, appVars, wizVars >>
    \/ \E p \in Procs : /\ FirstFree(p)
                        /\ \E r \in ResetInputs : ResetPassword(p, r[1], r[2])
                        /\ UNCHANGED << histVars, readVars, appVars, wizVars >>
    \/ \E p \in Procs : /\ FirstFree(p)
                        /\ \E body \in OtpSignups : Signup(p, body)
                        /\ UNCHANGED << histVars, profIdle >>
    \/ \E p \in Procs : SuCreate(p) /\ UNCHANGED << histVars, profIdle >>
    \/ \E p \in Procs : SuSet(p) /\ UNCHANGED << histVars, profIdle >>
    \/ \E p \in Procs : FpGetProfiles(p) /\ UNCHANGED << histVars, readVars, appVars, wizVars >>
    \/ \E p \in Procs : FpSet(p) /\ UNCHANGED << histVars, readVars, appVars, wizVars >>
    \/ \E p \in Procs : VfGet(p) /\ UNCHANGED << histVars, readVars, appVars, wizVars >>
    \/ \E p \in Procs : VfDel(p) /\ UNCHANGED << histVars, readVars, appVars, wizVars >>
    \/ \E p \in Procs : VfSet(p) /\ UNCHANGED << histVars, readVars, appVars, wizVars >>
    \/ \E p \in Procs : RpGet(p) /\ UNCHANGED << histVars, readVars, appVars, wizVars >>
    \/ \E p \in Procs : RpGetProfiles(p) /\ UNCHANGED << histVars, readVars, appVars, wizVars >>
    \/ \E p \in Procs : RpUpdate(p) /\ UNCHANGED << histVars, readVars, appVars, wizVars >>
    \/ \E p \in Procs : RpDel(p) /\ UNCHANGED << histVars, readVars, appVars, wizVars >>
    \/ \E p \in Procs : OtpThrows(p) /\ UNCHANGED << histVars, readVars, appVars, wizVars >>
    \/ Wait /\ UNCHANGED << histVars, readVars, appVars, wizVars >>

SpecOtp == InitOtp /\ [][NextOtp]_vars

\* ------------------------------------------------------- profile update by OTP
\* lines 1431-1438
NewProfileOtp(user, email, otp, time) ==
    [userId |-> user, email |-> email, otp |-> otp, createdAt |-> time,
     expiresAt |-> time + OtpLifetime]

\* lines 1415-1439: to the kv.set of line 1440
SendProfileOtp(p, user, email) ==
    /\ Start(p, [NoReq EXCEPT !.op = "profileOtp", !.user = user,
                              !.body = Some([email |-> email])])
    /\ IF user = NULL THEN Respond(p, 401, "Unauthorized") /\ UNCHANGED otpData
       ELSE IF Falsy(email) \/ email # Emails[user]
         THEN Respond(p, 400, "Invalid email") /\ UNCHANGED otpData
       ELSE /\ Goto(p, "ps_set")
            /\ \E otp \in Otps :
                  otpData' = [otpData EXCEPT ![p] = Some(NewProfileOtp(user, email, otp, now))]
    /\ UNCHANGED << now, kvVars, localVars, kv_otp, password, rpProfile, user_metadata >>

\* lines 1440-1445
PsSet(p) ==
    /\ pc[p] = "ps_set"
    /\ kv_profile_otp' = Set(kv_profile_otp, req[p].user, Val(otpData[p]))
    /\ Respond(p, 200, "")
    /\ UNCHANGED << now, kv_ticket, kv_user_tickets, kv_user_profile, kv_upvote,
                    kv_notifications, req, nreq, localVars, otpVars >>

\* lines 1453-1465: to the kv.get of line 1466; updatedProfile holds the
\* user_metadata of the user of the token
VerifyProfileOtp(p, user, otp, body) ==
    /\ Start(p, [NoReq EXCEPT !.op = "profileVerify", !.user = user, !.otp = otp,
                              !.body = Some(body)])
    /\ IF user = NULL THEN Respond(p, 401, "Unauthorized") /\ UNCHANGED updatedProfile
       ELSE /\ Goto(p, "po_get")
            /\ updatedProfile' = [updatedProfile EXCEPT ![p] = Some(user_metadata[user])]
    /\ UNCHANGED << now, kvVars, ticket, userTickets, notifications, pending,
                    upvoteRecord, myTickets, otpVars >>

\* lines 1466-1499: to the kv.del of line 1472 or the updateUserById of line 1486
PoGet(p) ==
    /\ pc[p] = "po_get"
    /\ LET got == Get(kv_profile_otp, req[p].user)
           body == Val(req[p].body)
       IN IF got = None
            THEN Respond(p, 400, "OTP not found or expired") /\ UNCHANGED updatedProfile
          ELSE IF Expired(Val(got), now)
            THEN Goto(p, "po_delExpired") /\ UNCHANGED updatedProfile
          ELSE IF Val(got).otp # req[p].otp
            THEN Respond(p, 400, "Invalid OTP") /\ UNCHANGED updatedProfile
          ELSE IF NameMissing(body)
            THEN Respond(p, 400, "Name is required") /\ UNCHANGED updatedProfile
          ELSE /\ Goto(p, "po_update")
               /\ updatedProfile' = [updatedProfile EXCEPT ![p] =
                      Some(Spread(Val(updatedProfile[p]), ProfileFields(body, now)))]
    /\ UNCHANGED << now, kvVars, req, nreq, ticket, userTickets, notifications, pending,
                    upvoteRecord, myTickets, otpVars >>

\* lines 1472-1473
PoDelExpired(p) ==
    /\ pc[p] = "po_delExpired"
    /\ kv_profile_otp' = Del(kv_profile_otp, req[p].user)
    /\ Respond(p, 400, "OTP has expired")
    /\ UNCHANGED << now, kv_ticket, kv_user_tickets, kv_user_profile, kv_upvote,
                    kv_notifications, req, nreq, localVars, otpVars >>

\* lines 1486-1506: updateUserById returns an error or sets the user_metadata
PoUpdate(p) ==
    /\ pc[p] = "po_update"
    /\ \/ /\ user_metadata' = [user_metadata EXCEPT ![req[p].user] = Val(updatedProfile[p])]
          /\ Goto(p, "po_getProfile")
       \/ /\ Respond(p, 500, "Failed to update profile")
          /\ UNCHANGED user_metadata
    /\ UNCHANGED << now, kvVars, req, nreq, localVars, kv_otp, password, otpData, rpProfile >>

\* lines 1506-1517
PoGetProfile(p) ==
    /\ pc[p] = "po_getProfile"
    /\ LET got == Get(kv_user_profile, req[p].user)
           userProfile == IF got = None THEN << >> ELSE Val(got)
       IN updatedProfile' = [updatedProfile EXCEPT ![p] =
             Some(Spread(userProfile, ProfileFields(Val(req[p].body), now)))]
    /\ Goto(p, "po_set")
    /\ UNCHANGED << now, kvVars, req, nreq, ticket, userTickets, notifications, pending,
                    upvoteRecord, myTickets, otpVars >>

\* line 1518
PoSet(p) ==
    /\ pc[p] = "po_set"
    /\ kv_user_profile' = Set(kv_user_profile, req[p].user, Val(updatedProfile[p]))
    /\ Goto(p, "po_del")
    /\ UNCHANGED << now, kv_ticket, kv_user_tickets, kv_upvote, kv_notifications,
                    kv_profile_otp, req, nreq, localVars, otpVars >>

\* lines 1521-1526
PoDel(p) ==
    /\ pc[p] = "po_del"
    /\ kv_profile_otp' = Del(kv_profile_otp, req[p].user)
    /\ Respond(p, 200, "")
    /\ UNCHANGED << now, kv_ticket, kv_user_tickets, kv_user_profile, kv_upvote,
                    kv_notifications, req, nreq, localVars, otpVars >>

\* <<caller, email>> and <<caller, otp, body>>
SendOtpInputs == ({NULL, "c1"} \X {Emails["c1"]}) \cup ({"c2"} \X {Emails["c2"], Emails["c1"], NULL})
VerifyOtpInputs == ({NULL, "c1"} \X {"123456"} \X {ProfileBody})
                   \cup ({"c2"} \X Otps \X {ProfileBody, [ProfileBody EXCEPT !.name = "  "]})

\* The signup and profile requests overlap, each slot serving one; store calls may
\* throw.
InitProfile == InitWith(SeedStore, 0)

NextProfile ==
    \/ \E p \in Procs : /\ FirstFree(p)
                        /\ \E r \in SendOtpInputs : SendProfileOtp(p, r[1], r[2])
                        /\ UNCHANGED << histVars, readVars, appVars, wizVars >>
    \/ \E p \in Procs : /\ FirstFree(p)
                        /\ \E r \in VerifyOtpInputs : VerifyProfileOtp(p, r[1], r[2], r[3])
                        /\ UNCHANGED << histVars, readVars, appVars, wizVars >>
    \/ \E p \in Procs : /\ FirstFree(p)
                        /\ \E r \in SentProfiles : UpdateProfile(p, r[1], r[2])
                        /\ UNCHANGED << histVars, profIdle >>
    \/ \E p \in Procs : /\ FirstFree(p)
                        /\ \E body \in SignupBodies : Signup(p, body)
                        /\ UNCHANGED << histVars, profIdle >>
    \/ \E p \in Procs : SuCreate(p) /\ UNCHANGED << histVars, profIdle >>
    \/ \E p \in Procs : SuSet(p) /\ UNCHANGED << histVars, profIdle >>
    \/ \E p \in Procs : PsSet(p) /\ UNCHANGED << histVars, readVars, appVars, wizVars >>
    \/ \E p \in Procs : PoGet(p) /\ UNCHANGED << histVars, readVars, appVars, wizVars >>
    \/ \E p \in Procs : PoDelExpired(p) /\ UNCHANGED << histVars, readVars, appVars, wizVars >>
    \/ \E p \in Procs : PoUpdate(p) /\ UNCHANGED << histVars, readVars, appVars, wizVars >>
    \/ \E p \in Procs : PoGetProfile(p) /\ UNCHANGED << histVars, readVars, appVars, wizVars >>
    \/ \E p \in Procs : PoSet(p) /\ UNCHANGED << histVars, readVars, appVars, wizVars >>
    \/ \E p \in Procs : PoDel(p) /\ UNCHANGED << histVars, readVars, appVars, wizVars >>
    \/ \E p \in Procs : PfUpdate(p) /\ UNCHANGED << histVars, profIdle >>
    \/ \E p \in Procs : PfGet(p) /\ UNCHANGED << histVars, profIdle >>
    \/ \E p \in Procs : PfSet(p) /\ UNCHANGED << histVars, profIdle >>
    \/ \E p \in Procs : KvThrows(p) /\ UNCHANGED << histVars, idleVars >>
    \/ \E p \in Procs : Return(p) /\ UNCHANGED << histVars, idleVars >>
    \/ Wait /\ UNCHANGED << histVars, readVars, appVars, wizVars >>

SpecProfile == InitProfile /\ [][NextProfile]_vars

\* ------------------------------------------------------------ the App component
MaxCalls == 2          \* calls of the async handlers of App that have not returned

\* session.user as authAPI.getSession() returns it, with user_metadata.role
SessionUsers == {[id |-> "a1", role |-> "authority"], [id |-> "c1", role |-> "citizen"],
                 [id |-> "c2", role |-> NULL]}
\* the role in the profile data merged into user_metadata (part_000, lines 325-349);
\* NULL: no profile data, or none with a role
ProfileRoles == {NULL, "authority", "citizen"}

Dashboards == {"citizen-dashboard", "authority-dashboard"}

Call(fn, at, u) == [fn |-> fn, at |-> at, user |-> u]
Remove(seq, i) == SubSeq(seq, 1, i - 1) \o SubSeq(seq, i + 1, Len(seq))

\* part_000, lines 328-334 and 342-348: { ...user_metadata, ...profileData }
Merged(u, role) == IF role = NULL THEN u ELSE [u EXCEPT !.role = role]

\* part_000, lines 354-362 and 409-416
Portal(userRole) ==
    IF userRole = "authority" THEN "authority-dashboard"
    ELSE IF userRole = "citizen" THEN "citizen-dashboard"
    ELSE "role-selection"

\* AuthLogin, shown in the login view: handleStep2Submit (part_001, lines
\* 107-129) up to the await of authAPI.signIn
handleStep2Submit ==
    /\ appState = "login"
    /\ Len(running) < MaxCalls
    /\ running' = Append(running, Call("AuthLogin", "signIn", None))
    /\ UNCHANGED << appState, appUser >>

\* AuthSignup, shown in the signup view: handleSubmit (RaiseTicketFlow.tsx, lines
\* 632-655) up to the await of authAPI.signUp
handleSignupSubmit ==
    /\ appState = "signup"
    /\ Len(running) < MaxCalls
    /\ running' = Append(running, Call("AuthSignup", "signUp", None))
    /\ UNCHANGED << appState, appUser >>

\* authAPI.signUp() returns, and the handler awaits signIn (RaiseTicketFlow.tsx,
\* lines 655-664), or throws (lines 666-670)
SignUpReturns(i) ==
    /\ running[i].at = "signUp"
    /\ \/ running' = [running EXCEPT ![i] = Call("AuthSignup", "signIn", None)]
       \/ running' = Remove(running, i)
    /\ UNCHANGED << appState, appUser >>

\* part_000, lines 373-375, called by AuthLogin and, through handleSignupSuccess
\* (lines 423-425), by AuthSignup, whatever App shows by then: up to the await of
\* getSession
handleLoginSuccess(i) ==
    /\ running' = [running EXCEPT ![i] = Call("handleLoginSuccess", "getSession", None)]
    /\ UNCHANGED << appState, appUser >>

\* authAPI.signIn() returns, and the handler calls onLoginSuccess (part_001, lines
\* 129-133, with a session) or onSignupSuccess (RaiseTicketFlow.tsx, lines 664-665);
\* or it throws, or returns no session to AuthLogin (part_001, lines 134-142)
SignInReturns(i) ==
    /\ running[i].at = "signIn"
    /\ \/ handleLoginSuccess(i)
       \/ /\ running' = Remove(running, i)
          /\ UNCHANGED << appState, appUser >>

\* authAPI.getSession() returns a session with a user, returns none, or throws
\* (part_000, lines 319-322 and 363-369; lines 375-378 and 417-422)
GetSessionReturns(i) ==
    /\ running[i].at = "getSession"
    /\ \/ \E u \in SessionUsers :
             /\ running' = [running EXCEPT ![i] = Call(running[i].fn, "getProfile", Some(u))]
             /\ UNCHANGED << appState, appUser >>
       \/ /\ running' = Remove(running, i)
          /\ appState' = IF running[i].fn = "checkExistingSession" THEN "login" ELSE appState
          /\ UNCHANGED appUser
       \/ /\ running' = Remove(running, i)
          /\ appState' = IF running[i].fn = "checkExistingSession" THEN "login"
                         ELSE "role-selection"
          /\ UNCHANGED appUser

\* profileAPI.getProfile() returns or throws, and the handler sets user and appState
\* (part_000, lines 324-362 and 380-416)
GetProfileReturns(i) ==
    /\ running[i].at = "getProfile"
    /\ \E role \in ProfileRoles :
          LET userWithProfile == Merged(Val(running[i].user), role)
          IN /\ appUser' = Some(userWithProfile)
             /\ appState' = Portal(userWithProfile.role)
    /\ running' = Remove(running, i)

\* part_000, lines 429-435
handleRoleSelect(role) ==
    /\ appState = "role-selection"
    /\ appState' = IF role = "citizen" THEN "citizen-dashboard" ELSE "authority-dashboard"
    /\ UNCHANGED << appUser, running >>

\* part_000, lines 437-440: up to the await of signOut
handleLogout ==
    /\ appState \in Dashboards
    /\ Len(running) < MaxCalls
    /\ running' = Append(running, Call("handleLogout", "signOut", None))
    /\ UNCHANGED << appState, appUser >>

\* authAPI.signOut() returns or throws (part_000, lines 445-452)
SignOutReturns(i) ==
    /\ running[i].at = "signOut"
    /\ appUser' = None
    /\ appState' = "login"
    /\ running' = Remove(running, i)

\* part_000, lines 474 and 481
SwitchToSignup ==
    /\ appState = "login"
    /\ appState' = "signup"
    /\ UNCHANGED << appUser, running >>
SwitchToLogin ==
    /\ appState = "signup"
    /\ appState' = "login"
    /\ UNCHANGED << appUser, running >>

\* The component is mounted: the effect of lines 313-315 has called
\* checkExistingSession, which awaits getSession.
InitApp ==
    /\ InitTickets(EmptyStore, 0)
    /\ NoOtp /\ NoWizard
    /\ appState = "loading"
    /\ appUser = None
    /\ running = << Call("checkExistingSession", "getSession", None) >>

NextApp ==
    \/ handleStep2Submit /\ UNCHANGED << progVars, histVars, readVars, otpVars, wizVars >>
    \/ handleSignupSubmit /\ UNCHANGED << progVars, histVars, readVars, otpVars, wizVars >>
    \/ \E i \in 1 .. Len(running) :
          SignUpReturns(i) /\ UNCHANGED << progVars, histVars, readVars, otpVars, wizVars >>
    \/ \E i \in 1 .. Len(running) :
          SignInReturns(i) /\ UNCHANGED << progVars, histVars, readVars, otpVars, wizVars >>
    \/ \E i \in 1 .. Len(running) :
          GetSessionReturns(i) /\ UNCHANGED << progVars, histVars, readVars, otpVars, wizVars >>
    \/ \E i \in 1 .. Len(running) :
          GetProfileReturns(i) /\ UNCHANGED << progVars, histVars, readVars, otpVars, wizVars >>
    \/ \E role \in {"citizen", "authority"} :
          handleRoleSelect(role) /\ UNCHANGED << progVars, histVars, readVars, otpVars, wizVars >>
    \/ handleLogout /\ UNCHANGED << progVars, histVars, readVars, otpVars, wizVars >>
    \/ \E i \in 1 .. Len(running) :
          SignOutReturns(i) /\ UNCHANGED << progVars, histVars, readVars, otpVars, wizVars >>
    \/ SwitchToSignup /\ UNCHANGED << progVars, histVars, readVars, otpVars, wizVars >>
    \/ SwitchToLogin /\ UNCHANGED << progVars, histVars, readVars, otpVars, wizVars >>

SpecApp == InitApp /\ [][NextApp]_vars

\* ------------------------------------------------------- the RaiseTicketFlow wizard
\* lines 137-143 and 147-153: the location found (coordinates in 1/10000 of a
\* degree), and the default location
FoundLocation ==
    [lat |-> 129716, lng |-> 775946, address |-> "Bengaluru", ward |-> "Ward 7",
     digiPin |-> ""]
FallbackLocation ==
    [lat |-> 286139, lng |-> 772090, address |-> "New Delhi, India (Default Location)",
     ward |-> "Ward 25", digiPin |-> "DG123456"]

\* the values of the DigiPin input and of getDigiPinData (lines 246-252, 426-431)
DigiPins == {"4P3JK852"}
\* the categories the user picks (line 510)
Picked == {"pothole", "water-supply"}

\* { ...prev.location, digiPin: value }
WithDigiPin(location, value) ==
    IF location = None THEN Some([digiPin |-> value])
    ELSE Some([Val(location) EXCEPT !.digiPin = value])

\* line 206: ticketData.location is truthy
HasLocation_Always(data) == TRUE
HasLocation(data) == data.location # None
\* line 215: ticketData.category is truthy
HasCategory(data) == data.category # ""

\* the async handlers of the wizard but handleSubmit, and the number of their
\* calls that are at an await
AsyncHandlers == {"getCurrentLocation", "handleAutoDigiPin", "handleImageUpload"}
Sum(calls) ==
    calls["getCurrentLocation"] + calls["handleAutoDigiPin"] + calls["handleImageUpload"]
Called(calls, fn) == [calls EXCEPT ![fn] = calls[fn] + 1]
Returned(calls, fn) == [calls EXCEPT ![fn] = calls[fn] - 1]

\* the form is shown, not the success view of lines 263-286
Shown == submittedTicket = None

\* lines 128-130, from the buttons of lines 452 and 473: up to the await
getCurrentLocation ==
    /\ Shown /\ step = 1 /\ ~locationLoading
    /\ Sum(awaiting) < MaxCalls
    /\ locationLoading' = TRUE
    /\ awaiting' = Called(awaiting, "getCurrentLocation")
    /\ UNCHANGED << step, ticketData, loading, submittedTicket, submitCalls >>

\* lines 134-169: getDigiPinData returns a result, returns null or throws
LocationReturns ==
    /\ awaiting["getCurrentLocation"] > 0
    /\ \E location \in {FoundLocation, FallbackLocation} :
          ticketData' = [ticketData EXCEPT !.location = Some(location)]
    /\ locationLoading' = FALSE
    /\ awaiting' = Returned(awaiting, "getCurrentLocation")
    /\ UNCHANGED << step, loading, submittedTicket, submitCalls >>

\* lines 243-247, from the button of line 462: up to the await
handleAutoDigiPin ==
    /\ Shown /\ step = 1 /\ ~locationLoading /\ ticketData.location # None
    /\ Sum(awaiting) < MaxCalls
    /\ locationLoading' = TRUE
    /\ awaiting' = Called(awaiting, "handleAutoDigiPin")
    /\ UNCHANGED << step, ticketData, loading, submittedTicket, submitCalls >>

\* lines 248-260: getDigiPinData returns a result, returns null or throws
AutoDigiPinReturns ==
    /\ awaiting["handleAutoDigiPin"] > 0
    /\ \/ \E value \in DigiPins :
             ticketData' = [ticketData EXCEPT
                               !.location = WithDigiPin(ticketData.location, value)]
       \/ UNCHANGED ticketData
    /\ locationLoading' = FALSE
    /\ awaiting' = Returned(awaiting, "handleAutoDigiPin")
    /\ UNCHANGED << step, loading, submittedTicket, submitCalls >>

\* lines 426-432: the DigiPin input
EditDigiPin(value) ==
    /\ Shown /\ step = 1 /\ ~locationLoading /\ ticketData.location # None
    /\ ticketData' = [ticketData EXCEPT
                         !.location = WithDigiPin(ticketData.location, value)]
    /\ UNCHANGED << step, locationLoading, loading, submittedTicket, awaiting,
                    submitCalls >>

\* lines 172-183, from the file inputs of lines 360-390: up to the await
handleImageUpload ==
    /\ Shown /\ step = 1 /\ ~loading
    /\ Sum(awaiting) < MaxCalls
    /\ loading' = TRUE
    /\ awaiting' = Called(awaiting, "handleImageUpload")
    /\ UNCHANGED << step, ticketData, locationLoading, submittedTicket, submitCalls >>

\* lines 184-195: uploadAPI.uploadFile returns or throws; the image is not modelled
UploadReturns ==
    /\ awaiting["handleImageUpload"] > 0
    /\ loading' = FALSE
    /\ awaiting' = Returned(awaiting, "handleImageUpload")
    /\ UNCHANGED << step, ticketData, locationLoading, submittedTicket, submitCalls >>

\* lines 205-212
handleStep1Next ==
    /\ Shown /\ step = 1
    /\ step' = IF HasLocation(ticketData) THEN 2 ELSE step
    /\ UNCHANGED << ticketData, locationLoading, loading, submittedTicket, awaiting,
                    submitCalls >>

\* line 510
SelectCategory(value) ==
    /\ Shown /\ step = 2
    /\ ticketData' = [ticketData EXCEPT !.category = value]
    /\ UNCHANGED << step, locationLoading, loading, submittedTicket, awaiting,
                    submitCalls >>

\* lines 214-221
handleStep2Next ==
    /\ Shown /\ step = 2
    /\ step' = IF HasCategory(ticketData) THEN 3 ELSE step
    /\ UNCHANGED << ticketData, locationLoading, loading, submittedTicket, awaiting,
                    submitCalls >>

\* line 298, and the effect of lines 122-126, which calls getCurrentLocation when
\* step has become 1
Back ==
    /\ Shown /\ step > 1
    /\ step' = step - 1
    /\ IF step' = 1
       THEN /\ Sum(awaiting) < MaxCalls
            /\ locationLoading' = TRUE
            /\ awaiting' = Called(awaiting, "getCurrentLocation")
       ELSE UNCHANGED << locationLoading, awaiting >>
    /\ UNCHANGED << ticketData, loading, submittedTicket, submitCalls >>

\* lines 223-233, from the button of line 590: up to the await of ticketsAPI.submit
handleSubmit ==
    /\ Shown /\ step = 3 /\ ~loading
    /\ Len(submitCalls) < MaxReq
    /\ loading' = TRUE
    /\ submitCalls' = Append(submitCalls,
                             [step |-> step, category |-> ticketData.category,
                              location |-> ticketData.location, returned |-> FALSE])
    /\ UNCHANGED << step, ticketData, locationLoading, submittedTicket, awaiting >>

\* lines 234-240: ticketsAPI.submit returns the ticket or throws
SubmitReturns(i) ==
    /\ ~submitCalls[i].returned
    /\ submitCalls' = [submitCalls EXCEPT ![i].returned = TRUE]
    /\ \/ submittedTicket' = Some(i)
       \/ UNCHANGED submittedTicket
    /\ loading' = FALSE
    /\ UNCHANGED << step, ticketData, locationLoading, awaiting >>

\* The component is mounted: the effect of lines 122-126 has called
\* getCurrentLocation, which awaits getDigiPinData.
InitWizard ==
    /\ InitTickets(EmptyStore, 0)
    /\ NoOtp /\ NoApp
    /\ step = 1
    /\ ticketData = [category |-> "", location |-> None]
    /\ locationLoading = TRUE
    /\ loading = FALSE
    /\ submittedTicket = None
    /\ awaiting = Called([fn \in AsyncHandlers |-> 0], "getCurrentLocation")
    /\ submitCalls = << >>

NextWizard ==
    \/ getCurrentLocation /\ UNCHANGED << progVars, histVars, readVars, otpVars, appVars >>
    \/ LocationReturns /\ UNCHANGED << progVars, histVars, readVars, otpVars, appVars >>
    \/ handleAutoDigiPin /\ UNCHANGED << progVars, histVars, readVars, otpVars, appVars >>
    \/ AutoDigiPinReturns /\ UNCHANGED << progVars, histVars, readVars, otpVars, appVars >>
    \/ \E value \in DigiPins :
          EditDigiPin(value) /\ UNCHANGED << progVars, histVars, readVars, otpVars, appVars >>
    \/ handleImageUpload /\ UNCHANGED << progVars, histVars, readVars, otpVars, appVars >>
    \/ UploadReturns /\ UNCHANGED << progVars, histVars, readVars, otpVars, appVars >>
    \/ handleStep1Next /\ UNCHANGED << progVars, histVars, readVars, otpVars, appVars >>
    \/ \E value \in Picked :
          SelectCategory(value) /\ UNCHANGED << progVars, histVars, readVars, otpVars, appVars >>
    \/ handleStep2Next /\ UNCHANGED << progVars, histVars, readVars, otpVars, appVars >>
    \/ Back /\ UNCHANGED << progVars, histVars, readVars, otpVars, appVars >>
    \/ handleSubmit /\ UNCHANGED << progVars, histVars, readVars, otpVars, appVars >>
    \/ \E i \in 1 .. Len(submitCalls) :
          SubmitReturns(i) /\ UNCHANGED << progVars, histVars, readVars, otpVars, appVars >>

SpecWizard == InitWizard /\ [][NextWizard]_vars

\* ------------------------------------------------------------ read requests
\* The read handlers make one store call, kv.getByPrefix('ticket_'), and compute
\* their answer from what it returns.  Time is counted in days here.
MaxTickets == 3        \* tickets in a store the read requests are sent to

\* getByPrefix('ticket_'): the stored tickets, in the order of their ids
RECURSIVE AllTickets(_)
AllTickets(tickets) ==
    IF tickets = << >> THEN << >>
    ELSE LET id == CHOOSE i \in DOMAIN tickets : \A j \in DOMAIN tickets : i <= j
         IN << tickets[id] >>
            \o AllTickets([j \in DOMAIN tickets \ {id} |-> tickets[j]])

\* String.prototype.localeCompare on the strings the model uses: the position of
\* the string in their alphabetical order
StringOrder == << "", "assigned", "completed", "in-progress", "rejected",
                  "submitted", "Ward 1", "Ward 2" >>
Rank(str) == CHOOSE i \in 1 .. Len(StringOrder) : StringOrder[i] = str
localeCompare(a, b) == Rank(a) - Rank(b)

\* the compare functions the handlers sort with: line 1024 (distance) and lines
\* 1572-1587 (sortBy)
Compare_OldestFirst(sortBy, a, b) ==
    CASE sortBy = "distance" -> a.distance - b.distance
      [] sortBy = "upvotes" -> b.upvotes - a.upvotes
      [] sortBy = "criticality" -> b.upvotes - a.upvotes
      [] sortBy = "status" -> localeCompare(a.status, b.status)
      [] sortBy = "ward" ->
            localeCompare(IF Falsy(a.location.ward) THEN "" ELSE a.location.ward,
                          IF Falsy(b.location.ward) THEN "" ELSE b.location.ward)
      [] OTHER -> a.createdAt - b.createdAt
Compare(sortBy, a, b) ==
    CASE sortBy = "distance" -> a.distance - b.distance
      [] sortBy = "upvotes" -> b.upvotes - a.upvotes
      [] sortBy = "criticality" -> b.upvotes - a.upvotes
      [] sortBy = "status" -> localeCompare(a.status, b.status)
      [] sortBy = "ward" ->
            localeCompare(IF Falsy(a.location.ward) THEN "" ELSE a.location.ward,
                          IF Falsy(b.location.ward) THEN "" ELSE b.location.ward)
      [] OTHER -> b.createdAt - a.createdAt

\* Array.prototype.sort(compare): stable; compare(a, b) <= 0 leaves a before b
RECURSIVE Insert(_, _, _)
Insert(sorted, x, sortBy) ==
    IF sorted = << >> THEN << x >>
    ELSE IF Compare(sortBy, sorted[Len(sorted)], x) <= 0 THEN Append(sorted, x)
    ELSE Append(Insert(SubSeq(sorted, 1, Len(sorted) - 1), x, sortBy), sorted[Len(sorted)])
RECURSIVE Sort(_, _)
Sort(seq, sortBy) ==
    IF seq = << >> THEN << >>
    ELSE Insert(Sort(SubSeq(seq, 1, Len(seq) - 1), sortBy), seq[Len(seq)], sortBy)

\* a number that may be null: x || 0
OrZero(x) == IF x = None THEN 0 ELSE Val(x)
\* a number is truthy unless it is null or 0
Truthy(x) == x # None /\ Val(x) # 0
Abs(x) == IF x < 0 THEN -x ELSE x

\* ------------------------------------------------------------- nearby
\* lines 1773-1782, for two points of one meridian (lng1 = lng2), where the
\* haversine formula gives R * |lat2 - lat1| * PI / 180; in whole metres, with
\* 355/113 for PI.
R == 6371
PiNum == 355
PiDen == 113
calculateDistance(lat1, lng1, lat2, lng2) ==
    LET n == R * 100 * PiNum          \* metres = n * |dLat| / d, in 32-bit steps
        d == PiDen * 18
        dLat == Abs(lat2 - lat1)
    IN CASE lng1 = lng2 -> (n \div d) * dLat + ((n % d) * dLat) \div d

\* distance <= radius, radius in kilometres (line 1018)
Within(distance, radius) == distance <= 1000 * radius

\* line 1016
HasCoordinates(t) == Truthy(t.location.lat) /\ Truthy(t.location.lng)

\* lines 1007-1009: parseFloat(c.req.query(..) || default)
NearbyQuery(lat, lng, radius) ==
    [op |-> "nearby", lat |-> OrZero(lat), lng |-> OrZero(lng),
     radius |-> IF radius = None THEN 5 ELSE Val(radius)]

\* lines 1012-1025
NearbyTickets(tickets, q) ==
    LET DistanceTo(t) == calculateDistance(q.lat, q.lng, Val(t.location.lat), Val(t.location.lng))
        Near(t) == HasCoordinates(t) /\ Within(DistanceTo(t), q.radius)
        near == SelectSeq(AllTickets(tickets), Near)
        withDistance == [i \in 1 .. Len(near) |-> [ticket |-> near[i], distance |-> DistanceTo(near[i])]]
    IN Sort(withDistance, "distance")

\* one read request is answered in a behaviour: reads leave the store as it is
Read(q) ==
    /\ query = None
    /\ query' = Some(q)
    /\ UNCHANGED << progVars, histVars, otpVars, appVars, wizVars >>

\* lines 1005-1027
ListNearby(lat, lng, radius) ==
    /\ Read(NearbyQuery(lat, lng, radius))
    /\ result' = [code |-> 200, tickets |-> NearbyTickets(kv_ticket, NearbyQuery(lat, lng, radius))]

\* the query parameters sent
NearbyLats == {None, Some(0), Some(28)}
NearbyLngs == {Some(77)}
NearbyRadii == {None, Some(0), Some(112), Some(3200)}

\* ------------------------------------------------------------- list all
\* lines 1544-1548: dates are day numbers; a parameter that is not sent is null
AllQuery(user, ward, status, dateFrom, dateTo, sortBy) ==
    [op |-> "all", user |-> user, ward |-> ward, status |-> status,
     dateFrom |-> dateFrom, dateTo |-> dateTo,
     sortBy |-> IF Falsy(sortBy) THEN "date" ELSE sortBy]

\* line 1554 and line 1558: ward && ward !== 'all'
Filters(value) == ~Falsy(value) /\ value # "all"
\* line 1564
FromOK_Strict(createdAt, fromDate) == createdAt > fromDate
FromOK(createdAt, fromDate) == createdAt >= fromDate
\* line 1569
ToOK(createdAt, toDate) == createdAt <= toDate

\* lines 1551-1570
FilteredTickets(tickets, q) ==
    LET Keep(t) ==
            /\ Filters(q.ward) => t.location.ward = q.ward
            /\ Filters(q.status) => t.status = q.status
            /\ q.dateFrom # None => FromOK(t.createdAt, Val(q.dateFrom))
            /\ q.dateTo # None => ToOK(t.createdAt, Val(q.dateTo))
    IN SelectSeq(AllTickets(tickets), Keep)

\* lines 1534-1589
ListAll(user, ward, status, dateFrom, dateTo, sortBy) ==
    LET q == AllQuery(user, ward, status, dateFrom, dateTo, sortBy)
    IN /\ Read(q)
       /\ result' = IF user = NULL
                      THEN [code |-> 401, tickets |-> << >>]
                      ELSE [code |-> 200,
                            tickets |-> Sort(FilteredTickets(kv_ticket, q), q.sortBy)]

\* the query parameters sent; the callers other than a1 send no parameter
AllWards == {NULL, "all", "Ward 1"}
AllStatuses == {NULL, "all", "completed"}
AllDates == {None, Some(1)}
AllSortBys == {NULL, "upvotes", "criticality", "status", "ward", "date", "newest"}
AllQueries ==
    ({"a1"} \X AllWards \X AllStatuses \X AllDates \X AllDates \X AllSortBys)
    \cup ({NULL, "c1"} \X {NULL} \X {NULL} \X {None} \X {None} \X {NULL})

\* -------------------------------------------------------------- heatmap
\* lines 1606-1622: the days dateThreshold lies before now; setMonth steps back by
\* the length of a calendar month, which the day count of the model does not tell
WindowDays(timeFilter) ==
    CASE timeFilter = "day" -> {1}
      [] timeFilter = "week" -> {7}
      [] timeFilter = "month" -> 28 .. 31
      [] timeFilter = "quarter" -> 89 .. 92
      [] OTHER -> {0}

\* lines 1599-1600 and the dateThreshold of lines 1606-1622
HeatmapQuery(timeFilter, wardFilter, days) ==
    [op |-> "heatmap",
     timeFilter |-> IF Falsy(timeFilter) THEN "week" ELSE timeFilter,
     wardFilter |-> IF Falsy(wardFilter) THEN "all" ELSE wardFilter,
     dateThreshold |-> now - days]

\* lines 1624-1631
HeatmapTickets(tickets, q) ==
    LET Keep(t) ==
            /\ q.timeFilter # "all" => t.createdAt >= q.dateThreshold
            /\ q.wardFilter # "all" => t.location.ward = q.wardFilter
    IN SelectSeq(AllTickets(tickets), Keep)

\* line 1637
WardOf(t) == IF Falsy(t.location.ward) THEN "Unknown" ELSE t.location.ward

\* lines 1636-1657: one ticket is added to wardData, the aggregates in the order
\* in which their wards were first met
Accumulate(wardData, t) ==
    LET ward == WardOf(t)
        fresh == [ward |-> ward, issueCount |-> 0, criticalCount |-> 0,
                  totalUpvotes |-> 0, categories |-> << >>]
        data == IF \E i \in 1 .. Len(wardData) : wardData[i].ward = ward
                  THEN wardData ELSE Append(wardData, fresh)
        at == CHOOSE i \in 1 .. Len(data) : data[i].ward = ward
        old == data[at]
        seen == IF t.category \in DOMAIN old.categories THEN old.categories[t.category] ELSE 0
    IN [data EXCEPT ![at] =
           [old EXCEPT !.issueCount = @ + 1,
                       !.criticalCount = IF t.upvotes >= 15 THEN @ + 1 ELSE @,
                       !.totalUpvotes = @ + t.upvotes,
                       !.categories = Set(@, t.category, seen + 1)]]

\* line 1635: allTickets.forEach
RECURSIVE WardData(_)
WardData(tickets) ==
    IF tickets = << >> THEN << >>
    ELSE Accumulate(WardData(SubSeq(tickets, 1, Len(tickets) - 1)), tickets[Len(tickets)])

\* Math.round(total / count) of two non-negative integers, count > 0
Round(total, count) == (2 * total + count) \div (2 * count)

\* line 1662
AverageUpvotes(ward) ==
    IF ward.issueCount > 0 THEN Round(ward.totalUpvotes, ward.issueCount) ELSE 0

\* lines 1663-1665
Density_From(issueCount) ==
    IF issueCount >= 40 THEN "critical"
    ELSE IF issueCount >= 25 THEN "high"
    ELSE IF issueCount >= 15 THEN "medium" ELSE "low"
Density(issueCount) ==
    IF issueCount > 40 THEN "critical"
    ELSE IF issueCount > 25 THEN "high"
    ELSE IF issueCount > 15 THEN "medium" ELSE "low"

\* lines 1660-1666
HeatmapData(tickets, q) ==
    LET wardData == WardData(HeatmapTickets(tickets, q))
    IN [i \in 1 .. Len(wardData) |->
           [ward |-> wardData[i].ward, issueCount |-> wardData[i].issueCount,
            criticalCount |-> wardData[i].criticalCount,
            totalUpvotes |-> wardData[i].totalUpvotes,
            categories |-> wardData[i].categories,
            averageUpvotes |-> AverageUpvotes(wardData[i]),
            density |-> Density(wardData[i].issueCount)]]

\* lines 1597-1668
Heatmap(timeFilter, wardFilter, days) ==
    LET q == HeatmapQuery(timeFilter, wardFilter, days)
    IN /\ Read(q)
       /\ result' = [code |-> 200, heatmapData |-> HeatmapData(kv_ticket, q)]

\* the query parameters sent
TimeFilters == {NULL, "day", "week", "month", "quarter", "all"}
WardFilters == {NULL, "Ward 1", "Unknown"}

\* ------------------------------------------------------ the stores read
\* the tickets the handlers have written: submitted by c1, then updated by a1
\* and upvoted
LocWard2 == [lat |-> Some(29), lng |-> Some(77), ward |-> "Ward 2"]
LocEquator == [lat |-> Some(0), lng |-> Some(77), ward |-> NULL]
LocNoWard == [lat |-> Some(29), lng |-> Some(77), ward |-> ""]
ReadShapes ==
    { [location |-> LocOK, category |-> "pothole", status |-> "submitted", upvotes |-> 0],
      [location |-> LocWard2, category |-> "streetlight", status |-> "completed", upvotes |-> 2],
      [location |-> LocEquator, category |-> "pothole", status |-> "in-progress", upvotes |-> 1],
      [location |-> LocOK, category |-> "other", status |-> "assigned", upvotes |-> 15],
      [location |-> LocNoWard, category |-> "pothole", status |-> "submitted", upvotes |-> 1] }

RECURSIVE Upvoted(_, _)
Upvoted(t, k) == IF k = 0 THEN t ELSE Increment(Upvoted(t, k - 1))

ReadTicket(t, shape) ==
    LET new == NewTicket(t, "c1", shape.category, shape.location)
        updated == IF shape.status = "submitted" THEN new
                   ELSE WithStatus(new, shape.status, NULL, NULL, "a1", t)
    IN Upvoted(updated, shape.upvotes)

ReadStores ==
    UNION { { [t \in 0 .. n - 1 |-> ReadTicket(t, shapes[t])] : shapes \in [0 .. n - 1 -> ReadShapes] }
            : n \in 0 .. MaxTickets }

\* stores with many tickets in one ward, around the sizes at which the density of
\* a ward changes
DenseSizes == {15, 16, 25, 26, 40, 41}
DenseStore(n) ==
    [t \in 0 .. n - 1 |->
        ReadTicket(t, [location |-> LocOK, category |-> "pothole", status |-> "submitted",
                       upvotes |-> IF t = 0 THEN 15 ELSE t % 2])]

InitRead ==
    /\ kv_ticket \in ReadStores \cup {DenseStore(n) : n \in DenseSizes}
    /\ \E age \in {0, 7} : now = Cardinality(DOMAIN kv_ticket) + age
    /\ kv_user_tickets = << >>
    /\ kv_user_profile = InitProfiles
    /\ kv_upvote = << >>
    /\ kv_notifications = << >>
    /\ pc = [p \in Procs |-> "idle"]
    /\ req = [p \in Procs |-> NoReq]
    /\ ticket = [p \in Procs |-> None]
    /\ userTickets = [p \in Procs |-> << >>]
    /\ notifications = [p \in Procs |-> << >>]
    /\ pending = [p \in Procs |-> << >>]
    /\ upvoteRecord = [p \in Procs |-> None]
    /\ myTickets = [p \in Procs |-> << >>]
    /\ updatedProfile = [p \in Procs |-> None]
    /\ kv_profile_otp = << >>
    /\ resp = [p \in Procs |-> NoResp]
    /\ nreq = 0
    /\ before = EmptyStore
    /\ okUpvotes = [id \in TicketIds |-> << >>]
    /\ query = None
    /\ result = None
    /\ NoOtp /\ NoApp /\ NoWizard

NextRead ==
    \/ \E lat \in NearbyLats, lng \in NearbyLngs, radius \in NearbyRadii :
          ListNearby(lat, lng, radius)
    \/ \E q \in AllQueries : ListAll(q[1], q[2], q[3], q[4], q[5], q[6])
    \/ \E timeFilter \in TimeFilters, wardFilter \in WardFilters :
          \E days \in WindowDays(IF Falsy(timeFilter) THEN "week" ELSE timeFilter) :
             Heatmap(timeFilter, wardFilter, days)

SpecRead == InitRead /\ [][NextRead]_vars

\* ------------------------------------------------------------ my tickets
\* lines 975-982: to the kv.get of line 984.  One list request is sent, beside
\* the MaxReq other requests: query records it.
ListMine(p, user) ==
    /\ pc[p] = "idle"
    /\ query = None
    /\ query' = Some([op |-> "mine", user |-> user])
    /\ req' = [req EXCEPT ![p] = [NoReq EXCEPT !.op = "mine", !.user = user]]
    /\ IF user = NULL THEN Respond(p, 401, "Unauthorized")
       ELSE Goto(p, "lm_getUserTickets")
    /\ UNCHANGED << now, kvVars, localVars, nreq >>

\* lines 984-987: the ids of the caller's list, and the first kv.get of the loop
LmGetUserTickets(p) ==
    /\ pc[p] = "lm_getUserTickets"
    /\ LET got == Get(kv_user_tickets, req[p].user)
           ids == IF got = None THEN << >> ELSE Val(got)
       IN /\ userTickets' = [userTickets EXCEPT ![p] = ids]
          /\ IF ids = << >> THEN Respond(p, 200, "") ELSE Goto(p, "lm_getTicket")
    /\ UNCHANGED << now, kvVars, req, ticket, notifications, pending, nreq, moreLocals >>

\* lines 987-997: one kv.get of the loop returns; userTickets holds the ids the
\* loop has yet to read.  After the last one the tickets are sorted by createdAt,
\* newest first (the compare function of line 995 is the one of sortBy = date).
LmGetTicket(p) ==
    /\ pc[p] = "lm_getTicket"
    /\ LET got == Get(kv_ticket, Head(userTickets[p]))
           tickets == IF got = None THEN myTickets[p] ELSE Append(myTickets[p], Val(got))
           rest == Tail(userTickets[p])
       IN /\ userTickets' = [userTickets EXCEPT ![p] = rest]
          /\ IF rest = << >>
               THEN /\ myTickets' = [myTickets EXCEPT ![p] = Sort(tickets, "date")]
                    /\ Respond(p, 200, "")
               ELSE /\ myTickets' = [myTickets EXCEPT ![p] = tickets]
                    /\ Goto(p, "lm_getTicket")
    /\ UNCHANGED << now, kvVars, req, ticket, notifications, pending, nreq,
                    upvoteRecord, updatedProfile >>

\* a request is being served in slot p
Serving(p) == pc[p] \notin {"idle", "done"}

\* Submit and list-my-tickets requests overlap, on the empty store or after one
\* submit request by c1; a slot is used again once no request is being served.
MineSubmits == {"c1", "c2"} \X { << "pothole", Some(LocOK) >> }
MineCallers == {NULL, "c1"}
InitMine == InitWith(SeedStore, 0) \/ InitWith(EmptyStore, 0)

NextMine ==
    \/ \E p \in Procs : /\ FirstFree(p)
                        /\ \E r \in MineSubmits : SubmitTicket(p, r[1], r[2])
                        /\ UNCHANGED << histVars, idleVars >>
    \/ \E p \in Procs : CrSetTicket(p) /\ UNCHANGED << histVars, idleVars >>
    \/ \E p \in Procs : CrGetUserTickets(p) /\ UNCHANGED << histVars, idleVars >>
    \/ \E p \in Procs : CrSetUserTickets(p) /\ UNCHANGED << histVars, idleVars >>
    \/ \E p \in Procs : CrGetProfiles(p) /\ UNCHANGED << histVars, idleVars >>
    \/ \E p \in Procs : NGet(p) /\ UNCHANGED << histVars, idleVars >>
    \/ \E p \in Procs : NSet(p) /\ UNCHANGED << histVars, idleVars >>
    \/ \E p \in Procs : /\ FirstFree(p)
                        /\ \E user \in MineCallers : ListMine(p, user)
                        /\ before' = store
                        /\ UNCHANGED << okUpvotes, result, otpVars, appVars, wizVars >>
    \/ \E p \in Procs : LmGetUserTickets(p) /\ UNCHANGED << histVars, idleVars >>
    \/ \E p \in Procs : LmGetTicket(p) /\ UNCHANGED << histVars, idleVars >>
    \/ \E p \in Procs : /\ req[p].op = "mine" /\ KvThrows(p)
                        /\ UNCHANGED << histVars, idleVars >>
    \/ \E p \in Procs : /\ \A q \in Procs : ~Serving(q)
                        /\ Return(p) /\ UNCHANGED << histVars, idleVars >>
    \/ Tick /\ UNCHANGED << histVars, idleVars >>

SpecMine == InitMine /\ [][NextMine]_vars

\* ------------------------------------------------------------------ claims
UpvoteOK(p) == pc[p] = "done" /\ req[p].op = "upvote" /\ resp[p].code = 200
Distinct(seq) == \A i, j \in 1 .. Len(seq) : i # j => seq[i] # seq[j]
FeedOf(feeds, u) == IF u \in DOMAIN feeds THEN feeds[u] ELSE << >>
ListOf(lists, u) == IF u \in DOMAIN lists THEN lists[u] ELSE << >>

\* C1: when Upvote calls run one after another, a ticket that N distinct voters
\* have upvoted successfully since it was created has upvotes = N.
C1_SequentialUpvotes ==
    Idle => \A id \in DOMAIN kv_ticket :
               Distinct(okUpvotes[id]) => kv_ticket[id].upvotes = Len(okUpvotes[id])

C1_Witness ==
    Idle /\ \E id \in DOMAIN kv_ticket :
               Len(okUpvotes[id]) >= 2 /\ Distinct(okUpvotes[id])

\* C2: an Upvote call by a voter whose upvote record for the ticket exists when the
\* call starts is refused, and the tickets, the upvote records, the ticket-id lists
\* and the feeds are after the call what they were before it.
C2_DuplicateUpvoteChangesNothing ==
    \A p \in Procs :
        ( /\ pc[p] = "done" /\ req[p].op = "upvote"
          /\ UpvoteKey(req[p].ticketId, req[p].user) \in DOMAIN before.upvote )
        => resp[p].code # 200 /\ store = before

C2_Witness ==
    \E p \in Procs :
        /\ pc[p] = "done" /\ req[p].op = "upvote"
        /\ UpvoteKey(req[p].ticketId, req[p].user) \in DOMAIN before.upvote
        /\ before.ticket[req[p].ticketId].upvotes = 1

\* Two Upvote calls by one voter on one ticket were in flight together and both
\* returned success; no other request has run since the ticket was created.
BothUpvoted(p, q) ==
    /\ p # q /\ UpvoteOK(p) /\ UpvoteOK(q)
    /\ req[p].ticketId = req[q].ticketId

\* C3: two overlapping Upvote calls by one voter that both succeed leave upvotes
\* 2 above its value before the two calls.
C3_DoubleIncrement ==
    \A p, q \in Procs :
        (BothUpvoted(p, q) /\ req[p].user = req[q].user)
        => kv_ticket[req[p].ticketId].upvotes = SeedTicket.upvotes + 2

\* C4: when the Upvote calls of N distinct voters on one ticket overlap and all
\* return success, upvotes ends at N (here N = 2, on the ticket of the seed store).
C4_OverlappingUpvotes ==
    \A p, q \in Procs :
        (BothUpvoted(p, q) /\ req[p].user # req[q].user)
        => kv_ticket[req[p].ticketId].upvotes = SeedTicket.upvotes + 2

\* C5: a duplicate upvote is answered with the Conflict kind, HTTP 409, which is
\* not the code that answers a submit request with missing fields.
C5_DuplicateUpvoteIsConflict ==
    \A p \in Procs :
        (pc[p] = "done" /\ req[p].op = "upvote" /\ resp[p].error = "Already upvoted")
        => resp[p].code = 409 /\ resp[p].code # SubmitInvalidCode

StatusOK(p) == pc[p] = "done" /\ req[p].op = "status" /\ resp[p].code = 200
SubmitOK(p) == pc[p] = "done" /\ req[p].op = "submit" /\ resp[p].code = 200
Min(a, b) == IF a < b THEN a ELSE b
\* feed is old with k entries put in front and cut to the cap
Prepends(feed, old, k) ==
    /\ Len(feed) = Min(Len(old) + k, NotifCap)
    /\ \A i \in k + 1 .. Len(feed) : feed[i] = old[i - k]
IsEntry(n, type, id) == n.type = type /\ n.ticketId = id
CompletedWithProof(r) == r.status = "completed" /\ r.proofImageUrl # NULL

\* what the feed of the reporter holds after a successful UpdateStatus, the flag
\* saying whether the two entries are promised for this request
ReporterFeed(p, promised) ==
    LET id == req[p].ticketId
        feed == FeedOf(kv_notifications, Val(ticket[p]).userId)
        old == FeedOf(before.notifications, Val(ticket[p]).userId)
    IN \E k \in 0 .. 2 :
          /\ Prepends(feed, old, k)
          /\ promised =>
                /\ k = 2
                /\ IsEntry(feed[1], "resolution", id)
                /\ IsEntry(feed[2], "ticket_update", id)
                /\ feed[2].createdAt <= feed[1].createdAt
          /\ \A i \in 1 .. k :
                feed[i].type = "resolution" => CompletedWithProof(req[p])

\* C6: after every successful UpdateStatus to completed with a proof
\* image the feed of the reporter holds a ticket-status-update entry and, put in
\* after it, a resolution entry for the ticket; UpdateStatus creates a resolution
\* entry only when the status is completed and a proof image is supplied.
C6_BothEntries ==
    \A p \in Procs : StatusOK(p) => ReporterFeed(p, CompletedWithProof(req[p]))

\* C7: every stored feed has at most 50 entries, and a createNotification that
\* finds 50 entries in the feed stores the new entry first and the 49 newest of the
\* old ones after it: the oldest, the last of the list, is gone.
C7_FeedCap ==
    /\ \A u \in DOMAIN kv_notifications : Len(kv_notifications[u]) <= NotifCap
    /\ \A p \in Procs :
          ( /\ UpvoteOK(p)
            /\ req[p].user # Val(ticket[p]).userId
            /\ Len(FeedOf(before.notifications, Val(ticket[p]).userId)) = NotifCap )
          => /\ kv_notifications[Val(ticket[p]).userId][1].type = "ticket_upvote"
             /\ kv_notifications[Val(ticket[p]).userId]
                   # before.notifications[Val(ticket[p]).userId]
    /\ \A p \in Procs :
          (pc[p] = "done" /\ resp[p].code = 200) =>
             \A u \in DOMAIN before.notifications :
                (Len(before.notifications[u]) = NotifCap
                 /\ kv_notifications[u] # before.notifications[u]) =>
                    LET feed == kv_notifications[u]
                        old == before.notifications[u]
                    IN \E k \in 1 .. 2 :
                          /\ Prepends(feed, old, k)
                          /\ \A i \in 1 .. k :
                                /\ IsEntry(feed[i], feed[i].type, req[p].ticketId)
                                /\ feed[i].createdAt >= old[1].createdAt
                                /\ ~feed[i].read
                          /\ feed[NotifCap] = old[NotifCap - k]

C7_Witness ==
    \E p \in Procs :
        /\ pc[p] = "done" /\ resp[p].code = 200
        /\ Len(FeedOf(before.notifications, "c1")) = NotifCap
        /\ kv_notifications["c1"][1].type = "ticket_upvote"
        /\ kv_notifications["c1"][NotifCap] = before.notifications["c1"][NotifCap - 1]

\* C8: a successful Create, requests running one after another, leaves the ticket
\* stored under the new id with status submitted, upvotes 0, assignedTo null,
\* resolution null and the caller as reporter, and the caller's ticket-id list is
\* the list before the call with the new id put at its end.
C8_CreatePersists ==
    \A p \in Procs :
        SubmitOK(p) =>
            LET id == Val(ticket[p]).id
            IN /\ id \in DOMAIN kv_ticket
               /\ kv_ticket[id].id = id
               /\ kv_ticket[id].status = "submitted"
               /\ kv_ticket[id].upvotes = 0
               /\ kv_ticket[id].assignedTo = NULL
               /\ kv_ticket[id].resolution = None
               /\ kv_ticket[id].userId = req[p].user
               /\ kv_ticket[id].category = req[p].category
               /\ kv_ticket[id].location = Val(req[p].location)
               /\ req[p].user \in DOMAIN kv_user_tickets
               /\ kv_user_tickets[req[p].user]
                     = Append(ListOf(before.user_tickets, req[p].user), id)

C8_Witness ==
    \E p \in Procs :
        /\ SubmitOK(p)
        /\ Len(ListOf(before.user_tickets, req[p].user)) = 1
        /\ kv_user_tickets[req[p].user][2] # kv_user_tickets[req[p].user][1]

\* the new-ticket entries for ticket id in a feed
NewTicketEntries(feed, id) == {i \in 1 .. Len(feed) : IsEntry(feed[i], "new_ticket", id)}

\* C9: after a successful Create every user whose stored profile has the authority
\* role has exactly one new-ticket entry for the ticket in the feed and no other
\* user has one, also when Create calls overlap.  Stated for a Create whose ticket
\* id no other Create has produced.
C9_OnePerAuthority ==
    \A p \in Procs :
        ( /\ SubmitOK(p)
          /\ Val(ticket[p]).id # SeedTicket.id
          /\ \A q \in Procs \ {p} :
                ~(req[q].op = "submit" /\ ticket[q] # None
                  /\ Val(ticket[q]).id = Val(ticket[p]).id) )
        => \A u \in Users :
              Cardinality(NewTicketEntries(FeedOf(kv_notifications, u), Val(ticket[p]).id))
                 = IF IsAuthority(Get(kv_user_profile, u)) THEN 1 ELSE 0

\* C10: Create refuses, and persists nothing for, a request whose category is not
\* one of the eight category values or whose location has no latitude or no
\* longitude.
C10_CreateValidates ==
    \A p \in Procs :
        ( /\ pc[p] = "done" /\ req[p].op = "submit" /\ req[p].user # NULL
          /\ \/ req[p].category \notin Categories
             \/ req[p].location = None
             \/ Val(req[p].location).lat = None
             \/ Val(req[p].location).lng = None )
        => resp[p].code # 200 /\ store = before

StatusDone(p) == pc[p] = "done" /\ req[p].op = "status" /\ req[p].user # NULL

\* C11: an UpdateStatus by a caller whose stored profile does not have the authority
\* role is answered Forbidden (403), and one by an authority for a ticket id that
\* is not stored is answered NotFound (404); in both cases the store, tickets and
\* feeds included, is what it was before the request.
C11_ForbiddenAndNotFound ==
    \A p \in Procs :
        StatusDone(p) =>
            LET authority == /\ req[p].user \in DOMAIN kv_user_profile
                             /\ Field(kv_user_profile[req[p].user], "role") = "authority"
            IN /\ ~authority => resp[p].code = 403 /\ store = before
               /\ (authority /\ req[p].ticketId \notin DOMAIN before.ticket)
                     => resp[p].code = 404 /\ store = before

C11_Witness ==
    \E p \in Procs :
        /\ StatusDone(p) /\ resp[p].code = 403
        /\ req[p].user \in DOMAIN kv_user_profile
        /\ req[p].ticketId \in DOMAIN kv_ticket
        /\ kv_notifications # << >>

\* C12: in every reachable state a ticket with a resolution record has status
\* completed.
C12_ResolvedIsCompleted ==
    \A id \in DOMAIN kv_ticket :
        kv_ticket[id].resolution # None => kv_ticket[id].status = "completed"

\* C12, amended: a ticket with a resolution record has been assigned, and the
\* record holds the notes a caller with the authority role supplied; the status of
\* the ticket need not be completed.
C12_ResolvedIsAssigned ==
    \A id \in DOMAIN kv_ticket :
        kv_ticket[id].resolution # None =>
            /\ kv_ticket[id].assignedTo # NULL
            /\ ~Falsy(Val(kv_ticket[id].resolution).notes)
            /\ IsAuthority(Get(kv_user_profile, Val(kv_ticket[id].resolution).resolvedBy))

C12_Witness ==
    \E id \in DOMAIN kv_ticket :
        /\ kv_ticket[id].resolution # None
        /\ kv_ticket[id].status # "completed"

\* C13: in every reachable state a ticket whose status is not submitted has an
\* assignedTo, and when an UpdateStatus has answered with success the stored ticket
\* has the caller as assignedTo and the requested status.
C13_AssignedOnStatus ==
    /\ \A id \in DOMAIN kv_ticket :
          kv_ticket[id].status # "submitted" => kv_ticket[id].assignedTo # NULL
    /\ \A p \in Procs :
          StatusOK(p) =>
             /\ kv_ticket[req[p].ticketId].assignedTo = req[p].user
             /\ kv_ticket[req[p].ticketId].status = req[p].status

C13_Witness ==
    \E p \in Procs :
        /\ StatusOK(p)
        /\ before.ticket[req[p].ticketId].status = "submitted"
        /\ before.ticket[req[p].ticketId].assignedTo = NULL
        /\ kv_ticket[req[p].ticketId].status = "completed"

\* the writes a handler makes before it turns to the notifications are stored
Persisted(p) ==
    /\ pc[p] = "done" /\ ticket[p] # None
    /\ CASE req[p].op = "submit" ->
              /\ Get(kv_ticket, Val(ticket[p]).id) = ticket[p]
              /\ kv_user_tickets # before.user_tickets
         [] req[p].op = "status" ->
              /\ kv_ticket[req[p].ticketId] = Val(ticket[p])
              /\ kv_ticket # before.ticket
         [] req[p].op = "upvote" ->
              /\ kv_ticket[req[p].ticketId] = Val(ticket[p])
              /\ kv_ticket # before.ticket
         [] OTHER -> FALSE

\* C14: a Create, UpdateStatus or Upvote that has stored its ticket mutation
\* answers with success and the mutation stays stored, whatever store call fails
\* while it emits its notifications.
C14_NotificationFailureIsSilent ==
    \A p \in Procs : Persisted(p) => resp[p].code = 200

\* the answers of the unauthorized, validation or conflict, forbidden and not-found
\* kinds
ErrorCodes == {401, SubmitInvalidCode, AlreadyUpvotedCode, 403, 404}
Done(p) == pc[p] = "done" /\ req[p].op \in {"submit", "status", "upvote"}

\* C15: a Create, UpdateStatus or Upvote that is answered with an unauthorized,
\* forbidden, not-found, validation or conflict error leaves the store as it was
\* before the request; requests without a valid token, Creates without category
\* or location, Upvotes of an unknown ticket and repeated Upvotes are answered so.
C15_ErrorsWriteNothing ==
    \A p \in Procs :
        Done(p) =>
            /\ resp[p].code \in ErrorCodes => store = before
            /\ req[p].user = NULL => resp[p].code = 401
            /\ ( /\ req[p].op = "submit" /\ req[p].user # NULL
                 /\ (Falsy(req[p].category) \/ req[p].location = None) )
                  => resp[p].code = SubmitInvalidCode
            /\ ( /\ req[p].op = "upvote" /\ req[p].user # NULL
                 /\ req[p].ticketId \notin DOMAIN before.ticket )
                  => resp[p].code = 404
            /\ ( /\ req[p].op = "upvote" /\ req[p].user # NULL
                 /\ req[p].ticketId \in DOMAIN before.ticket
                 /\ UpvoteKey(req[p].ticketId, req[p].user) \in DOMAIN before.upvote )
                  => resp[p].code = AlreadyUpvotedCode

C15_Witness ==
    \E p \in Procs :
        /\ Done(p) /\ req[p].op = "submit" /\ resp[p].code = SubmitInvalidCode
        /\ req[p].location = None
        /\ before.ticket # << >> /\ before.notifications # << >>

Nearby == query # None /\ Val(query).op = "nearby"
Ids(tickets) == {tickets[i].id : i \in 1 .. Len(tickets)}

\* C16: ListNearby returns exactly the stored tickets whose distance to the point
\* of the query is at most the radius, tickets with a coordinate equal to 0
\* included, each with its distance, in ascending order of distance.
C16_NearbyExact ==
    Nearby =>
        LET q == Val(query)
            DistanceOf(t) == calculateDistance(q.lat, q.lng, Val(t.location.lat), Val(t.location.lng))
            listed == result.tickets
        IN /\ {listed[i].ticket.id : i \in 1 .. Len(listed)}
                 = {id \in DOMAIN kv_ticket : Within(DistanceOf(kv_ticket[id]), q.radius)}
           /\ \A i \in 1 .. Len(listed) :
                 /\ listed[i].ticket = kv_ticket[listed[i].ticket.id]
                 /\ listed[i].distance = DistanceOf(listed[i].ticket)
           /\ \A i, j \in 1 .. Len(listed) :
                 i < j => /\ listed[i].distance <= listed[j].distance
                          /\ listed[i].ticket.id # listed[j].ticket.id

Listed == query # None /\ Val(query).op = "all" /\ result.code = 200
WardKey(t) == IF Falsy(t.location.ward) THEN "" ELSE t.location.ward

\* the tickets a ListAll query asks for; a ward or status parameter is a filter
\* if it is sent, and its value all is one if allIsFilter says so
Present(value, allIsFilter) == ~Falsy(value) /\ (allIsFilter \/ value # "all")
Asked(q, allIsFilter) ==
    {id \in DOMAIN kv_ticket :
        /\ Present(q.ward, allIsFilter) => kv_ticket[id].location.ward = q.ward
        /\ Present(q.status, allIsFilter) => kv_ticket[id].status = q.status
        /\ q.dateFrom # None => kv_ticket[id].createdAt >= Val(q.dateFrom)
        /\ q.dateTo # None => kv_ticket[id].createdAt <= Val(q.dateTo)}
Exactly(tickets, ids) ==
    /\ Ids(tickets) = ids
    /\ Len(tickets) = Cardinality(ids)
    /\ \A i \in 1 .. Len(tickets) : tickets[i] = kv_ticket[tickets[i].id]

\* C17: ListAll returns exactly the tickets that satisfy every filter that is sent
\* (ward equal, status equal, createdAt >= dateFrom, createdAt <= dateTo), and all
\* tickets when none is sent.
C17_FiltersExact ==
    Listed => Exactly(result.tickets, Asked(Val(query), TRUE))

\* C17, amended: the same, a ward or status parameter with the value all being no
\* filter.
C17_FiltersExactButAll ==
    Listed => Exactly(result.tickets, Asked(Val(query), FALSE))

C17_Witness ==
    /\ Listed
    /\ Val(query).ward = "Ward 1" /\ Val(query).dateFrom = Some(1)
    /\ Val(query).status = "all" /\ Val(query).dateTo = Some(1)
    /\ Len(result.tickets) = 1
    /\ Cardinality(DOMAIN kv_ticket) = 3

\* C18: the answer of ListAll is in the order of the key sortBy names: upvotes and
\* criticality by upvotes descending, status and ward ascending by string with a
\* missing or empty ward first, date and any other or no sortBy by createdAt
\* descending.
C18_SortOrder ==
    Listed =>
        LET listed == result.tickets
            sortBy == Val(query).sortBy
        IN \A i, j \in 1 .. Len(listed) :
              i < j =>
                 CASE sortBy \in {"upvotes", "criticality"} ->
                         listed[i].upvotes >= listed[j].upvotes
                   [] sortBy = "status" -> Rank(listed[i].status) <= Rank(listed[j].status)
                   [] sortBy = "ward" ->
                         /\ Rank(WardKey(listed[i])) <= Rank(WardKey(listed[j]))
                         /\ Falsy(listed[j].location.ward) => Falsy(listed[i].location.ward)
                   [] OTHER -> listed[i].createdAt >= listed[j].createdAt

C18_Witness ==
    /\ Listed /\ Val(query).sortBy = "ward"
    /\ Len(result.tickets) = 3
    /\ result.tickets[1].location.ward = "" /\ result.tickets[1].id = 1
    /\ result.tickets[2].location.ward = NULL /\ result.tickets[2].id = 2
    /\ result.tickets[3].location.ward = "Ward 2" /\ result.tickets[3].id = 0

Heat == query # None /\ Val(query).op = "heatmap"
RECURSIVE IssueTotal(_)
IssueTotal(wards) ==
    IF wards = << >> THEN 0 ELSE wards[1].issueCount + IssueTotal(Tail(wards))

\* the tickets that pass the time and ward filters of a Heatmap query: day and
\* week (the default) reach 1 and 7 days back
InWindow(q) ==
    {id \in DOMAIN kv_ticket :
        /\ q.timeFilter = "day" => kv_ticket[id].createdAt >= now - 1
        /\ q.timeFilter = "week" => kv_ticket[id].createdAt >= now - 7
        /\ q.timeFilter # "all" => kv_ticket[id].createdAt >= q.dateThreshold
        /\ q.wardFilter # "all" => kv_ticket[id].location.ward = q.wardFilter}
\* the tickets among them that an aggregate counts
CountedIn(q, ward) ==
    {id \in InWindow(q) :
        ward = IF kv_ticket[id].location.ward \in {NULL, ""} THEN "Unknown"
               ELSE kv_ticket[id].location.ward}

\* C19: the issue counts of the wards Heatmap returns sum to the number of tickets
\* that pass the time and ward filters, every such ticket is counted in the one
\* aggregate of its ward (Unknown for a missing ward), and the density of a ward
\* is critical above 40 issues, high above 25, medium above 15, low otherwise.
C19_HeatmapCounts ==
    Heat =>
        LET q == Val(query)
            wards == result.heatmapData
        IN /\ IssueTotal(wards) = Cardinality(InWindow(q))
           /\ \A i, j \in 1 .. Len(wards) : i # j => wards[i].ward # wards[j].ward
           /\ \A id \in InWindow(q) : \E i \in 1 .. Len(wards) : id \in CountedIn(q, wards[i].ward)
           /\ \A i \in 1 .. Len(wards) :
                 /\ wards[i].issueCount = Cardinality(CountedIn(q, wards[i].ward))
                 /\ wards[i].density =
                       IF wards[i].issueCount > 40 THEN "critical"
                       ELSE IF wards[i].issueCount > 25 THEN "high"
                       ELSE IF wards[i].issueCount > 15 THEN "medium" ELSE "low"

C19_Witness ==
    /\ Heat /\ Val(query).timeFilter = "month"
    /\ Len(result.heatmapData) = 1
    /\ result.heatmapData[1].issueCount = 28
    /\ result.heatmapData[1].density = "high"
    /\ Cardinality(DOMAIN kv_ticket) = 41

\* C20: in every aggregate Heatmap returns, averageUpvotes is the floor of
\* totalUpvotes / issueCount (0 for no issue) and criticalCount is the number of the
\* ward's tickets with at least 15 upvotes.
C20_AverageIsFloor ==
    Heat =>
        LET q == Val(query)
            wards == result.heatmapData
        IN \A i \in 1 .. Len(wards) :
              /\ wards[i].averageUpvotes =
                    IF wards[i].issueCount > 0
                      THEN wards[i].totalUpvotes \div wards[i].issueCount ELSE 0
              /\ wards[i].criticalCount =
                    Cardinality({id \in CountedIn(q, wards[i].ward) : kv_ticket[id].upvotes >= 15})

MarkDone(p) ==
    pc[p] = "done" /\ req[p].op \in {"markRead", "markAllRead"} /\ resp[p].code = 200
\* the entries a mark request is to flip
Touched(p, n) == req[p].op = "markAllRead" \/ n.id = Val(req[p].notificationId)

\* C21: a MarkRead or MarkAllRead that has answered leaves the caller's feed with
\* the length, the order and every field but read as before; read is true in the
\* entries it is to flip (all of them, or those with the given id) and as before in
\* the others, so the feed is as before when no entry has the id and when the
\* entries to flip were read already (a second application); nothing else in the
\* store changes.
C21_MarkOnlyFlipsRead ==
    \A p \in Procs :
        MarkDone(p) =>
            LET feed == FeedOf(kv_notifications, req[p].user)
                old == FeedOf(before.notifications, req[p].user)
            IN /\ Len(feed) = Len(old)
               /\ \A i \in 1 .. Len(old) :
                     /\ feed[i] = [old[i] EXCEPT !.read = feed[i].read]
                     /\ feed[i].read = (old[i].read \/ Touched(p, old[i]))
               /\ (\A i \in 1 .. Len(old) : Touched(p, old[i]) => old[i].read) => feed = old
               /\ \A u \in Users \ {req[p].user} :
                     FeedOf(kv_notifications, u) = FeedOf(before.notifications, u)
               /\ kv_ticket = before.ticket /\ kv_upvote = before.upvote
               /\ kv_user_tickets = before.user_tickets

\* the second of two equal requests: the entries it is to flip were unread in the
\* stores the requests start from
C21_Witness ==
    \E p \in Procs :
        /\ MarkDone(p) /\ req[p].op = "markRead" /\ nreq = 2
        /\ LET old == FeedOf(before.notifications, req[p].user)
           IN /\ Len(old) = 2
              /\ old[1].read /\ old[1].id = Val(req[p].notificationId)
              /\ ~old[2].read
              /\ FeedOf(kv_notifications, req[p].user) = old

Mine(p) == pc[p] = "done" /\ req[p].op = "mine" /\ resp[p].code = 200

\* C22: ListMine(u), served after Create calls that may have overlapped (no
\* request has changed the store since the list request arrived, and none is being
\* served), returns exactly the stored tickets whose reporter is u, each once,
\* newest first by createdAt.
C22_ListMineExact ==
    \A p \in Procs :
        (Mine(p) /\ store = before /\ \A q \in Procs : ~Serving(q)) =>
            /\ Exactly(myTickets[p],
                       {id \in DOMAIN kv_ticket : kv_ticket[id].userId = req[p].user})
            /\ \A i, j \in 1 .. Len(myTickets[p]) :
                  i < j => myTickets[p][i].createdAt >= myTickets[p][j].createdAt

\* C23: ticket ids are unique: the kv.set of a Create never finds a ticket stored
\* under its id, whatever the clock values and the callers of the Creates.
C23_UniqueIds ==
    [][\A p \in Procs :
          (pc[p] = "cr_setTicket" /\ pc'[p] # pc[p])
             => Val(ticket[p]).id \notin DOMAIN kv_ticket]_vars

\* C24: a successful Upvote by a voter who is not the reporter puts exactly one
\* upvote-received entry, unread and carrying the new upvote total, in front of the
\* reporter's feed and leaves the other feeds as they were; one by the reporter
\* changes no feed, and the vote is counted.
C24_UpvoteNotifiesReporter ==
    \A p \in Procs :
        UpvoteOK(p) =>
            LET id == req[p].ticketId
                owner == before.ticket[id].userId
                feed == FeedOf(kv_notifications, owner)
                old == FeedOf(before.notifications, owner)
            IN /\ kv_ticket[id].upvotes = before.ticket[id].upvotes + 1
               /\ IF req[p].user # owner
                    THEN /\ Prepends(feed, old, 1)
                         /\ IsEntry(feed[1], "ticket_upvote", id)
                         /\ feed[1].message[3] = kv_ticket[id].upvotes
                         /\ ~feed[1].read
                         /\ \A u \in Users \ {owner} :
                               FeedOf(kv_notifications, u) = FeedOf(before.notifications, u)
                    ELSE kv_notifications = before.notifications

C24_Witness ==
    \E p \in Procs :
        /\ UpvoteOK(p) /\ req[p].user # kv_ticket[req[p].ticketId].userId
        /\ kv_notifications[kv_ticket[req[p].ticketId].userId][1].message[3] = 2
        /\ Len(kv_notifications[kv_ticket[req[p].ticketId].userId]) = 2

\* C25: when an Upvote and an UpdateStatus of one ticket have both answered with
\* success, overlapping or not, the stored ticket has the status and the assignedTo
\* the UpdateStatus wrote, and its resolution record if it sent notes.
C25_UpvoteKeepsStatus ==
    \A p, q \in Procs :
        (UpvoteOK(p) /\ StatusOK(q) /\ req[p].ticketId = req[q].ticketId) =>
            LET t == kv_ticket[req[q].ticketId]
            IN /\ t.status = req[q].status
               /\ t.assignedTo = req[q].user
               /\ ~Falsy(req[q].resolution) =>
                     t.resolution # None /\ Val(t.resolution).notes = req[q].resolution

\* C26: once the status of a ticket is completed or rejected, no step of any
\* request changes it.
C26_TerminalStatusStays ==
    [][\A id \in DOMAIN kv_ticket :
          kv_ticket[id].status \in {"completed", "rejected"}
             => kv_ticket'[id].status = kv_ticket[id].status]_vars

\* C27: after a successful UpdateStatus that sent resolution notes, whatever the
\* status it sent, the resolution record of the ticket holds these notes, the proof
\* image sent or null, the caller as resolver and the time of the update; after one
\* that sent no notes the record is the one the ticket had before.
C27_ResolutionIffNotes ==
    \A p \in Procs :
        StatusOK(p) =>
            LET t == kv_ticket[req[p].ticketId]
                old == before.ticket[req[p].ticketId]
            IN IF Falsy(req[p].resolution)
                 THEN t.resolution = old.resolution
                 ELSE /\ t.resolution # None
                      /\ Val(t.resolution).notes = req[p].resolution
                      /\ Val(t.resolution).proofImageUrl = req[p].proofImageUrl
                      /\ Val(t.resolution).resolvedBy = req[p].user
                      /\ Val(t.resolution).resolvedAt = t.updatedAt
                      /\ old.updatedAt <= t.updatedAt /\ t.updatedAt <= now

C27_Witness ==
    \E p \in Procs :
        /\ StatusOK(p) /\ Falsy(req[p].resolution)
        /\ before.ticket[req[p].ticketId].status = "assigned"
        /\ kv_ticket[req[p].ticketId].status = "in-progress"
        /\ kv_ticket[req[p].ticketId].resolution # None
        /\ Val(kv_ticket[req[p].ticketId].resolution).proofImageUrl = "url"

\* C28: the upvote record of a (ticket, voter) pair is written at most once and,
\* once stored, is never overwritten or deleted, also when Upvote calls of one
\* voter overlap.
C28_UpvoteRecordOnce ==
    [][/\ \A k \in DOMAIN kv_upvote :
             k \in DOMAIN kv_upvote' /\ kv_upvote'[k] = kv_upvote[k]
       /\ \A p \in Procs :
             (pc[p] = "up_setUpvote" /\ pc'[p] # pc[p])
                => UpvoteKey(req[p].ticketId, req[p].user) \notin DOMAIN kv_upvote]_vars

\* C29: ListAll answers with tickets only a caller whose stored profile has the
\* authority role.
C29_ListAllAuthorityOnly ==
    (Listed /\ result.tickets # << >>) =>
        /\ Val(query).user \in DOMAIN kv_user_profile
        /\ Field(kv_user_profile[Val(query).user], "role") = "authority"

UpvoteRecords(id) == {k \in DOMAIN kv_upvote : k[1] = id}

\* C30: in every state, also while Upvote, UpdateStatus and Create calls overlap,
\* the upvotes of a stored ticket is at most the number of upvote records stored
\* for the ticket.
C30_UpvotesWithinRecords ==
    \A id \in DOMAIN kv_ticket :
        kv_ticket[id].upvotes <= Cardinality(UpvoteRecords(id))

\* an Upvote and an UpdateStatus that overlapped: the UpdateStatus wrote back the
\* ticket it had read before the Upvote stored its increment
C30_Witness ==
    \E p, q \in Procs :
        /\ UpvoteOK(p) /\ StatusOK(q) /\ req[p].ticketId = req[q].ticketId
        /\ kv_ticket[req[p].ticketId].upvotes = 0
        /\ Cardinality(UpvoteRecords(req[p].ticketId)) = 1
        /\ Val(ticket[p]).upvotes = 1

\* C31: the upvotes of a stored ticket never decreases: every step of every
\* request, an UpdateStatus that overlaps an Upvote of the ticket included, leaves
\* it at least what it was.
C31_UpvotesNeverDecrease ==
    [][\A id \in DOMAIN kv_ticket :
          kv_ticket'[id].upvotes >= kv_ticket[id].upvotes]_vars

\* C32: every step leaves each entry of each stored feed in the feed, with read
\* still true if it was true, unless the feed is at its cap of 50 entries after
\* the step (the cap has evicted the entry); also when createNotification,
\* MarkRead and MarkAllRead on one feed overlap.
C32_FeedEntriesStay ==
    [][\A u \in DOMAIN kv_notifications :
          \A i \in 1 .. Len(kv_notifications[u]) :
             \/ Len(kv_notifications'[u]) = NotifCap
             \/ \E j \in 1 .. Len(kv_notifications'[u]) :
                   /\ kv_notifications'[u][j].id = kv_notifications[u][i].id
                   /\ kv_notifications'[u][j].type = kv_notifications[u][i].type
                   /\ kv_notifications[u][i].read => kv_notifications'[u][j].read]_vars

\* C33: when a successful UpdateStatus has put a resolution entry in the
\* reporter's feed, the stored ticket has a resolution record, and the record holds
\* the proof image the request sent.
C33_ResolutionEntryHasRecord ==
    \A p \in Procs :
        ( /\ StatusOK(p)
          /\ LET feed == FeedOf(kv_notifications, Val(ticket[p]).userId)
             IN /\ feed # FeedOf(before.notifications, Val(ticket[p]).userId)
                /\ feed[1].type = "resolution" )
        => /\ kv_ticket[req[p].ticketId].resolution # None
           /\ Val(kv_ticket[req[p].ticketId].resolution).proofImageUrl = req[p].proofImageUrl

\* C34: a successful UpdateStatus of a ticket whose reporter has no stored profile
\* stores the status and the assignee and leaves every feed as it was; one whose
\* reporter has a stored profile puts its entries in the reporter's feed and leaves
\* the other feeds as they were.
C34_NotifiesStoredReporterOnly ==
    \A p \in Procs :
        StatusOK(p) =>
            LET id == req[p].ticketId
                owner == before.ticket[id].userId
                feed == FeedOf(kv_notifications, owner)
                old == FeedOf(before.notifications, owner)
            IN /\ kv_ticket[id].status = req[p].status
               /\ kv_ticket[id].assignedTo = req[p].user
               /\ IF owner \in DOMAIN kv_user_profile
                    THEN /\ \E k \in 1 .. 2 :
                               /\ Prepends(feed, old, k)
                               /\ IsEntry(feed[k], "ticket_update", id)
                         /\ \A u \in Users \ {owner} :
                               FeedOf(kv_notifications, u) = FeedOf(before.notifications, u)
                    ELSE kv_notifications = before.notifications

C34_Witness ==
    \E p \in Procs :
        /\ StatusOK(p)
        /\ kv_ticket[req[p].ticketId].userId \notin DOMAIN kv_user_profile
        /\ req[p].status = "completed" /\ req[p].proofImageUrl = "url"
        /\ before.ticket[req[p].ticketId].status = "submitted"
        /\ kv_notifications # << >>

\* C35: the verified OTP is single-use, also when requests overlap: whenever
\* reset-password answers 200 for an Aadhaar number, the store still holds the
\* verified OTP record of that number, which this reset consumes; a reset never
\* succeeds on a record that another reset has consumed or that a newer
\* forgot-password request has replaced.
C35_VerifiedOtpSingleUse ==
    [][\A p \in Procs :
          (pc[p] = "rp_del" /\ pc'[p] = "done" /\ resp'[p].code = 200)
              => /\ Get(kv_otp, req[p].aadhaar) # None
                 /\ Val(Get(kv_otp, req[p].aadhaar)).verified]_vars

\* C36: once the current time is later than the expiresAt of the OTP record of an
\* Aadhaar number, a reset-password request that reads the record is refused: it
\* does not go on to set the password.
C36_ExpiredOtpRefused ==
    [][\A p \in Procs :
          (/\ pc[p] = "rp_get"
           /\ Get(kv_otp, req[p].aadhaar) # None
           /\ now > Val(Get(kv_otp, req[p].aadhaar)).expiresAt)
              => pc'[p] # "rp_getProfiles"]_vars

\* C37: a step of App that enters a dashboard state leaves user non-null, and the
\* step that completes handleLogout leaves appState = 'login' and user null, whether
\* signOut returned or threw.
C37_DashboardHasUser ==
    [][/\ (appState' \in Dashboards /\ appState \notin Dashboards) => appUser' # None
       /\ (\E i \in 1 .. Len(running) :
              running[i].fn = "handleLogout" /\ running' = Remove(running, i))
              => (appState' = "login" /\ appUser' = None)]_vars

\* C38: in the wizard, step 2 and step 3 are shown only with a non-null location,
\* step 3 only with a non-empty category, and every ticketsAPI.submit call was made
\* from step 3 with a non-empty category and a non-null location.
C38_WizardGuards ==
    /\ step >= 2 => ticketData.location # None
    /\ step = 3 => ticketData.category # ""
    /\ \A i \in 1 .. Len(submitCalls) :
          /\ submitCalls[i].step = 3
          /\ submitCalls[i].category # ""
          /\ submitCalls[i].location # None

\* The user has submitted, the call has failed, and after going back to step 1,
\* where the location is looked up again, has submitted another category.
C38_Witness ==
    /\ Len(submitCalls) = 2
    /\ submitCalls[1].category # submitCalls[2].category
    /\ submitCalls[1].returned
    /\ submitCalls[1].location # submitCalls[2].location

\* C39: provided each store call returns or throws, every Create, UpdateStatus and
\* Upvote request that is being served reaches its response, the notification
\* fan-out of Create included.
C39_EveryRequestAnswered ==
    \A p \in Procs : (pc[p] \notin {"idle", "done"}) ~> (pc[p] = "done")

\* A Create has answered 200 after its fan-out to both authorities, the first
\* createNotification call of which threw: a1 has no new entry and a2 has one.
C39_Witness ==
    \E p \in Procs :
        /\ pc[p] = "done" /\ req[p].op = "submit" /\ resp[p].code = 200
        /\ pending[p] = << >>
        /\ Len(FeedOf(kv_notifications, "a1")) = 1
        /\ Len(FeedOf(kv_notifications, "a2")) = 2
====
